---- MODULE Spec2Model ----
(***************************************************************************)
(* State-machine model of the blockchain-learn repository.                 *)
(*                                                                         *)
(*  - the UTXO ledger (rust-04/ledgerdb): Blockchain, Block, Transaction   *)
(*    and PersistentStorage, specification Spec;                           *)
(*  - the key/value chain (rust-03/chain_kv_full, rust-02): Chain and      *)
(*    Block, specification SpecKV.                                         *)
(*                                                                         *)
(* SHA-256 is modelled as a collision-free structural hash: the hash of a  *)
(* value is a record that wraps the bytes that were hashed.  The numeric   *)
(* value of a proof-of-work hash is a small deterministic digest of the    *)
(* header fields.  u64 amounts are scaled to U64Bits bits.                 *)
(***************************************************************************)
EXTENDS Integers, Sequences, FiniteSets, TLC

(***************************************************************************)
(* Bounds of the model.                                                    *)
(***************************************************************************)
MaxBlocks == 2          \* longest in-memory chain explored (genesis included)
MaxTime   == 3          \* last wall-clock tick
MaxPool   == 2          \* most transactions kept in the pool
MaxTxId   == 2          \* distinct uuids Transaction::new hands out
MaxJournal == 2         \* journal entries on disk beyond which the process is not restarted
MaxKVBlocks == 3        \* longest key/value chain explored (genesis included)
MaxBatchOps == 2        \* most operations collected in one batch
KVMaxTime == 1          \* last unix second a key/value block is stamped with
MaxElapsed == 1         \* seconds a mine() call is followed for
MaxHalvingInterval == 3 \* largest halving_interval the reward is computed for
MaxRewardHeight == 12   \* highest block height the reward is computed for
MaxRetargetLen == 6     \* longest chain the difficulty controller is followed on
MaxLeaves == 5
MaxTxInputs == 2                     \* inputs of a validated transaction
MaxTxOutputs == 2                    \* outputs of a validated transaction
MaxPoolSize == 2                     \* largest max_size of a TransactionPool          \* most leaves of a Merkle tree

(***************************************************************************)
(* Program constants (configuration defaults, scaled to the model).        *)
(***************************************************************************)
U32Max == 255                        \* u32::MAX, the coinbase output index
U64Bits == 4                         \* width of an amount
BlockRewardCfg == 4                  \* config.block_reward
HalvingInterval == 2                 \* config.halving_interval
MaxTransactionsPerBlock == 2         \* config.max_transactions_per_block
DifficultyAdjustmentInterval == 2    \* config.difficulty_adjustment_interval
TargetBlockTime == 1                 \* config.target_block_time
InitialDifficulty == 1               \* config.initial_difficulty
MaxFutureDrift == 2                  \* chrono::Duration::hours(2)
GenesisTimestamp == 0                \* 2024-01-01T00:00:00Z
GenesisDifficulty == 1               \* the difficulty Block::genesis builds with
PowBits == 3                         \* bits of a proof-of-work hash value
HashLen == 2                         \* bytes of a Hash256
ByteBits == 8                        \* bits of a byte
ByteMax == 255                       \* 0xFF
MineAttemptLimit == 2                \* the 10_000_000 attempts of Block::mine

Addresses == {"alice", "bob"}
GenesisAddress == "alice"            \* the genesis_address of the deployment
MinerAddress == "carol"              \* the miner_address handed to create_block
FeeLevels == {1, 2}                  \* fee.base_fee values a client may set
TxAmounts == {0, 3, 5}               \* output amounts a client may ask for

Pow2(n) == 2 ^ n
U64Max == Pow2(U64Bits) - 1
Min(a, b) == IF a < b THEN a ELSE b
Max(a, b) == IF a > b THEN a ELSE b

(***************************************************************************)
(* Maps (HashMap, sled Tree) as functions.                                 *)
(***************************************************************************)
EmptyMap == [k \in {} |-> TRUE]
MapPut(m, k, v) == [x \in (DOMAIN m) \cup {k} |-> IF x = k THEN v ELSE m[x]]
MapDel(m, k) == [x \in (DOMAIN m) \ {k} |-> m[x]]

(***************************************************************************)
(* crypto: Hash256 values.                                                 *)
(***************************************************************************)
ZeroHash == [h |-> "zero"]
HashMultiple(l, r) == [h |-> "node", l |-> l, r |-> r]

(***************************************************************************)
(* core/transaction.rs                                                     *)
(***************************************************************************)
NewInput(prev, idx, signed) ==
    [previous_tx_hash |-> prev, output_index |-> idx,
     signature |-> signed, public_key |-> signed]

CoinbaseInput == NewInput(ZeroHash, U32Max, FALSE)

InputIsCoinbase(input) ==
    input.previous_tx_hash = ZeroHash /\ input.output_index = U32Max

NewOutput(amount, recipient) == [amount |-> amount, recipient |-> recipient]

\* Transaction::coinbase(recipient, amount, block_height) built at time t
CoinbaseTx(recipient, amount, height, t) ==
    [id |-> <<"coinbase", height>>,
     inputs |-> <<CoinbaseInput>>,
     outputs |-> <<NewOutput(amount, recipient)>>,
     base_fee |-> 0,
     timestamp |-> t]

\* Transaction::new(inputs, outputs) with a fresh uuid, built at time t
NewTx(uuid, inputs, outputs, fee, t) ==
    [id |-> <<"uuid", uuid>>,
     inputs |-> inputs,
     outputs |-> outputs,
     base_fee |-> fee,
     timestamp |-> t]

TxIsCoinbase(tx) == Len(tx.inputs) = 1 /\ InputIsCoinbase(tx.inputs[1])

\* a hash over the transaction as it stands, signatures included
TxHashWithSignatures(tx) == [h |-> "tx", tx |-> tx]

\* Transaction::hash: the signatures are cleared before hashing
TxHash(tx) ==
    [h |-> "tx",
     tx |-> [tx EXCEPT !.inputs =
                [i \in DOMAIN tx.inputs |-> [tx.inputs[i] EXCEPT !.signature = FALSE]]]]

\* UtxoId::to_string and the key Transaction::validate formats: "hex:index"
UtxoKey(txhash, idx) == <<txhash, idx>>

RECURSIVE SumAmounts(_)
SumAmounts(outs) ==
    IF outs = <<>> THEN 0 ELSE outs[1].amount + SumAmounts(Tail(outs))

\* Transaction::total_output_amount: an unchecked u64 sum
TotalOutputAmount(tx) == SumAmounts(tx.outputs) % Pow2(U64Bits)

\* TransactionInput::validate
InputValidate(input) ==
    IF InputIsCoinbase(input) THEN "Ok"
    ELSE IF ~input.signature THEN "MissingSignature"
    ELSE IF ~input.public_key THEN "MissingPublicKey"
    ELSE "Ok"

RECURSIVE FirstError(_)
FirstError(errs) ==
    IF errs = <<>> THEN "Ok"
    ELSE IF errs[1] # "Ok" THEN errs[1]
    ELSE FirstError(Tail(errs))

\* the input loop of Transaction::validate: checked_add over the looked-up amounts
RECURSIVE InputTotal(_, _, _)
InputTotal(inputs, utxo_map, acc) ==
    IF inputs = <<>> THEN [err |-> "Ok", total |-> acc]
    ELSE LET key == UtxoKey(inputs[1].previous_tx_hash, inputs[1].output_index) IN
         IF key \notin DOMAIN utxo_map THEN [err |-> "OutputNotFound", total |-> acc]
         ELSE IF acc + utxo_map[key].amount > U64Max
              THEN [err |-> "ArithmeticOverflow", total |-> acc]
         ELSE InputTotal(Tail(inputs), utxo_map, acc + utxo_map[key].amount)

\* Transaction::validate, given the value total_output_amount() returned
TxValidateWith(tx, utxo_map, total_output) ==
    IF tx.inputs = <<>> THEN "EmptyInputs"
    ELSE IF tx.outputs = <<>> THEN "EmptyOutputs"
    ELSE LET ierr == FirstError([i \in DOMAIN tx.inputs |-> InputValidate(tx.inputs[i])])
             oerr == FirstError([i \in DOMAIN tx.outputs |->
                        IF tx.outputs[i].amount = 0 THEN "InvalidAmount" ELSE "Ok"])
             tot  == InputTotal(tx.inputs, utxo_map, 0)
         IN IF ierr # "Ok" THEN ierr
            ELSE IF oerr # "Ok" THEN oerr
            ELSE IF TxIsCoinbase(tx) THEN "Ok"
            ELSE IF tot.err # "Ok" THEN tot.err
            ELSE IF tot.total < total_output THEN "InsufficientFunds"
            ELSE "Ok"

\* Transaction::validate where the output sum wraps
TxValidate(tx, utxo_map) == TxValidateWith(tx, utxo_map, TotalOutputAmount(tx))

\* total_output_amount is an unchecked `.sum()` over u64: an addition that
\* overflows panics where overflow checks are compiled in and wraps elsewhere
TotalOutputAmountOutcomes(tx) ==
    IF SumAmounts(tx.outputs) > U64Max
    THEN {[panic |-> TRUE, value |-> 0],
          [panic |-> FALSE, value |-> SumAmounts(tx.outputs) % Pow2(U64Bits)]}
    ELSE {[panic |-> FALSE, value |-> SumAmounts(tx.outputs)]}

\* the results Transaction::validate can produce: the sum is only evaluated
\* once every earlier check has passed
TxValidateOutcomes(tx, utxo_map) ==
    LET early == TxValidateWith(tx, utxo_map, 0) IN
    IF early # "Ok" \/ TxIsCoinbase(tx) THEN {early}
    ELSE { IF o.panic THEN "panic" ELSE TxValidateWith(tx, utxo_map, o.value) :
             o \in TotalOutputAmountOutcomes(tx) }

\* Transaction::total_input_amount: inputs that are not found are skipped
RECURSIVE SumInputs(_, _)
SumInputs(inputs, utxo_map) ==
    IF inputs = <<>> THEN 0
    ELSE LET key == UtxoKey(inputs[1].previous_tx_hash, inputs[1].output_index) IN
         (IF InputIsCoinbase(inputs[1]) \/ key \notin DOMAIN utxo_map
          THEN 0 ELSE utxo_map[key].amount) + SumInputs(Tail(inputs), utxo_map)

TotalInputAmount(tx, utxo_map) == SumInputs(tx.inputs, utxo_map) % Pow2(U64Bits)

\* Transaction::calculate_fee
CalculateFee(tx, utxo_map) ==
    IF TxIsCoinbase(tx) THEN 0
    ELSE LET tot == TotalInputAmount(tx, utxo_map)
             out == TotalOutputAmount(tx)
         IN IF tot > out THEN tot - out ELSE 0

\* TransactionPool::add_transaction: priority = base_fee * priority_multiplier (1.0)
Priority(tx) == tx.base_fee

(***************************************************************************)
(* crypto/merkle.rs                                                        *)
(***************************************************************************)
\* one pass of the bottom-up loop of MerkleTree::from_hashes
RECURSIVE MerkleLevel(_)
MerkleLevel(level) ==
    IF level = <<>> THEN <<>>
    ELSE IF Len(level) = 1 THEN <<HashMultiple(level[1], level[1])>>
    ELSE <<HashMultiple(level[1], level[2])>> \o MerkleLevel(Tail(Tail(level)))

\* MerkleTree::from_hashes(...).root() for a non-empty list
RECURSIVE MerkleRootOf(_)
MerkleRootOf(level) ==
    IF Len(level) = 1 THEN level[1] ELSE MerkleRootOf(MerkleLevel(level))

\* a proof step that always takes the node to the right as the sibling
SiblingToTheRight(level_len, current_index) ==
    IF current_index + 1 < level_len THEN current_index + 1 ELSE current_index

\* generate_proof_by_index: the sibling_index of the node at current_index
\* (0-based) in a level of level_len nodes
SiblingIndex(level_len, current_index) ==
    IF current_index % 2 = 0
    THEN IF current_index + 1 < level_len THEN current_index + 1 ELSE current_index
    ELSE current_index - 1

\* generate_proof_by_index: the walk from the leaves up to the root
RECURSIVE ProofPath(_, _, _, _)
ProofPath(current_level, current_index, proof_hashes, proof_directions) ==
    IF Len(current_level) <= 1
    THEN [proof_hashes |-> proof_hashes, proof_directions |-> proof_directions]
    ELSE ProofPath(MerkleLevel(current_level), current_index \div 2,
                   Append(proof_hashes,
                          current_level[SiblingIndex(Len(current_level), current_index) + 1]),
                   Append(proof_directions, current_index % 2 = 0))

\* MerkleTree::from_hashes(leaves) followed by generate_proof_by_index(leaf_index)
GenerateProofByIndex(leaves, leaf_index) ==
    IF leaf_index >= Len(leaves)
    THEN [err |-> "InvalidLeafIndex"]
    ELSE LET path == ProofPath(leaves, leaf_index, <<>>, <<>>)
         IN [err |-> "Ok",
             leaf_hash |-> leaves[leaf_index + 1],
             leaf_index |-> leaf_index,
             proof_hashes |-> path.proof_hashes,
             proof_directions |-> path.proof_directions,
             root_hash |-> MerkleRootOf(leaves)]

\* MerkleProof::verify: the fold over proof_hashes zipped with proof_directions
RECURSIVE ProofFold(_, _, _, _)
ProofFold(current_hash, proof_hashes, proof_directions, k) ==
    IF k > Len(proof_hashes) \/ k > Len(proof_directions) THEN current_hash
    ELSE ProofFold(IF proof_directions[k]
                   THEN HashMultiple(current_hash, proof_hashes[k])
                   ELSE HashMultiple(proof_hashes[k], current_hash),
                   proof_hashes, proof_directions, k + 1)

\* MerkleProof::verify(expected_root)
ProofVerify(proof, expected_root) ==
    IF proof.root_hash # expected_root THEN FALSE
    ELSE ProofFold(proof.leaf_hash, proof.proof_hashes, proof.proof_directions, 1)
            = expected_root

\* MerkleTree::from_transactions(...).root()
TxMerkleRoot(txs) == MerkleRootOf([i \in DOMAIN txs |-> TxHash(txs[i])])

(***************************************************************************)
(* crypto/pow.rs                                                           *)
(***************************************************************************)
\* calculate_target: the first `difficulty` bits are zero, the others one
CalculateTarget(difficulty) ==
    IF difficulty >= PowBits THEN 0 ELSE Pow2(PowBits - difficulty) - 1

\* calculate_target with only the whole zero bytes written and the
\* partial byte left at 0xFF
CalculateTargetWholeBytes(difficulty) ==
    [i \in 1..HashLen |-> IF i - 1 < difficulty \div ByteBits THEN 0 ELSE ByteMax]

\* calculate_target on Hash256 as an array of HashLen bytes
CalculateTargetBytes(difficulty) ==
    LET zero_bytes == difficulty \div ByteBits
        remaining_bits == difficulty % ByteBits
    IN [i \in 1..HashLen |->
          IF i - 1 < zero_bytes THEN 0
          ELSE IF i - 1 = zero_bytes /\ zero_bytes < HashLen /\ remaining_bits > 0
               THEN ByteMax \div Pow2(remaining_bits)
               ELSE ByteMax]

\* a <= b on byte slices of equal length: lexicographic order
RECURSIVE SliceLeqFrom(_, _, _)
SliceLeqFrom(a, b, i) ==
    IF i > Len(a) THEN TRUE
    ELSE IF a[i] # b[i] THEN a[i] < b[i]
    ELSE SliceLeqFrom(a, b, i + 1)

SliceLeq(a, b) == SliceLeqFrom(a, b, 1)

\* hash_meets_target on Hash256 as an array of bytes
HashMeetsTargetBytes(hash, target) == SliceLeq(hash, target)

\* SHA-256 as a function of the bytes it is fed: a digest of PowBits bits in
\* which every byte counts with a weight given by its position
DigestWeight(i) == <<5, 1, 1, 2, 2>>[((i - 1) % 5) + 1]

RECURSIVE DigestSum(_, _)
DigestSum(bytes, i) ==
    IF i > Len(bytes) THEN 0 ELSE DigestWeight(i) * bytes[i] + DigestSum(bytes, i + 1)

Digest(bytes) == (1 + DigestSum(bytes, 1)) % Pow2(PowBits)

\* hash_with_nonce(block_data, nonce): the digest of block_data followed by
\* the bytes of the nonce
PowHash(block_data, nonce) == Digest(block_data \o <<nonce>>)

\* hash_meets_target on digests
HashMeetsTarget(hash, target) == hash <= target

\* bincode::serialize(header), the fields that vary in the model
SerializeHeader(header) ==
    <<header.timestamp, header.difficulty, header.nonce, header.transaction_count>>

\* hash_with_nonce(serialize(header), header.nonce) as a number of PowBits bits
HashWithNonce(header) == PowHash(SerializeHeader(header), header.nonce)

\* validate_proof_of_work / BlockHeader::meets_difficulty_target
MeetsDifficultyTarget(header) ==
    HashMeetsTarget(HashWithNonce(header), CalculateTarget(header.difficulty))

(***************************************************************************)
(* core/block.rs                                                           *)
(***************************************************************************)
NoHash == [h |-> "none"]

\* BlockHeader::hash
HeaderHash(header) == [h |-> "header", header |-> header]

\* the digest BlockHeader::hash computes, hash_data(serialize(header)), as a
\* number of PowBits bits
HeaderDigest(header) == Digest(SerializeHeader(header))

\* Block::new(index, previous_hash, transactions, difficulty) at time t
NewBlock(index, previous_hash, transactions, difficulty, t) ==
    [header |-> [version |-> 1,
                 previous_hash |-> previous_hash,
                 merkle_root |-> TxMerkleRoot(transactions),
                 timestamp |-> t,
                 difficulty |-> difficulty,
                 nonce |-> 0,
                 transaction_count |-> Len(transactions)],
     transactions |-> transactions,
     index |-> index,
     cached_hash |-> NoHash]

\* Block::genesis(genesis_address, initial_supply) at time t
GenesisBlock(genesis_address, initial_supply, t) ==
    LET b == NewBlock(0, ZeroHash,
                      <<CoinbaseTx(genesis_address, initial_supply, 0, t)>>, 1, t)
    IN [b EXCEPT !.header.timestamp = GenesisTimestamp]

\* Block::hash
BlockHash(b) == IF b.cached_hash # NoHash THEN b.cached_hash ELSE HeaderHash(b.header)

IsGenesis(b) == b.index = 0 /\ b.header.previous_hash = ZeroHash

\* BlockHeader::validate at wall-clock time t
HeaderValidate(header, t) ==
    IF header.version = 0 THEN "InvalidVersion"
    ELSE IF header.difficulty = 0 THEN "InvalidDifficulty"
    ELSE IF header.timestamp > t + MaxFutureDrift THEN "InvalidTimestamp"
    ELSE "Ok"

\* the transaction loop of Block::validate
TxLoopError(b, utxo_map) ==
    FirstError([i \in DOMAIN b.transactions |->
        IF i = 1 /\ b.index > 0
        THEN (IF ~TxIsCoinbase(b.transactions[i]) THEN "MissingCoinbase"
              ELSE TxValidate(b.transactions[i], utxo_map))
        ELSE IF TxIsCoinbase(b.transactions[i]) THEN "MultipleCoinbase"
        ELSE TxValidate(b.transactions[i], utxo_map)])

HasPrev(prev) == prev # NoHash

\* Block::validate(previous_block, utxo_set) at time t; prev = NoHash for None
BlockValidate(b, prev, utxo_map, t) ==
    LET herr == HeaderValidate(b.header, t)
        lerr == IF HasPrev(prev)
                THEN IF b.index # prev.index + 1 THEN "InvalidBlockIndex"
                     ELSE IF b.header.previous_hash # BlockHash(prev) THEN "InvalidPreviousHash"
                     ELSE IF b.header.timestamp <= prev.header.timestamp THEN "InvalidTimestamp"
                     ELSE "Ok"
                ELSE IF b.index # 0 THEN "InvalidBlockIndex"
                ELSE "Ok"
        terr == TxLoopError(b, utxo_map)
    IN IF herr # "Ok" THEN herr
       ELSE IF lerr # "Ok" THEN lerr
       ELSE IF b.transactions = <<>> THEN "EmptyBlock"
       ELSE IF b.index > 0 /\ ~TxIsCoinbase(b.transactions[1]) THEN "MissingCoinbase"
       ELSE IF terr # "Ok" THEN terr
       ELSE IF TxMerkleRoot(b.transactions) # b.header.merkle_root THEN "InvalidMerkleRoot"
       ELSE IF ~MeetsDifficultyTarget(b.header) THEN "InvalidProofOfWork"
       ELSE IF b.header.transaction_count # Len(b.transactions) THEN "InvalidTransactionCount"
       ELSE "Ok"

\* Block::mine: raise the nonce until the header meets its target
RECURSIVE MineHeader(_, _)
MineHeader(header, attempts) ==
    IF MeetsDifficultyTarget(header) THEN [err |-> "Ok", header |-> header]
    ELSE IF attempts > MineAttemptLimit
         THEN [err |-> "MiningTimeout", header |-> [header EXCEPT !.nonce = @ + 1]]
         ELSE MineHeader([header EXCEPT !.nonce = @ + 1], attempts + 1)

\* Block::mine: [err, block]; the block is the value as mine() leaves it
BlockMineResult(b) ==
    LET r == MineHeader(b.header, 1)
    IN [err |-> r.err,
        block |-> IF r.err = "Ok"
                  THEN [b EXCEPT !.header = r.header, !.cached_hash = HeaderHash(r.header)]
                  ELSE [b EXCEPT !.header = r.header]]

BlockMine(b) == BlockMineResult(b).block

VARIABLES
    blocks,             \* Blockchain.blocks
    utxo_set,           \* Blockchain.utxo_set
    transaction_pool,   \* Blockchain.transaction_pool
    block_index,        \* Blockchain.block_index
    storage,            \* Blockchain.storage.is_some()
    next_journal_id,    \* PersistentStorage.next_journal_id
    disk,               \* the sled database on disk
    now,                \* Utc::now()
    cand,               \* the Block value the caller holds (NoHash: none)
    res,                \* the last call and what it returned
    up,                 \* the process is running
    crashed,            \* the chain as it was when a store_block was cut short
    kv_blocks,          \* Chain.blocks
    kv_difficulty,      \* Chain.difficulty
    kv_batch_active,    \* Chain.batch_active
    kv_batch_ops,       \* Chain.batch_ops
    kv_keypair,         \* the Option<SigningKey> of main
    kv_file,            \* the JSON file written by save (NoHash: no file)
    kv_tampered,        \* the file was edited after it was saved
    kv_res,             \* the last command and what it reported
    is_mining,          \* ProofOfWorkMiner.is_mining
    pm_config,          \* ProofOfWorkMiner.config and the block_data of the call
    pm_pc,              \* where the thread inside mine() stands
    pm_nonce,           \* mine(): nonce
    pm_attempts,        \* mine(): attempts
    pm_elapsed,         \* mine(): start_time.elapsed(), in seconds
    pm_result,          \* what mine() returned (NoHash: nothing yet)
    pm_stop_seen,       \* stop() was called while this mine() call was under way
    pm_hashes_after,    \* hashes this mine() call computed after that stop()
    fn_call,            \* a library function applied to arguments, with its result
    pool_transactions,  \* TransactionPool.transactions
    pool_priority_queue,\* TransactionPool.priority_queue
    pool_max_size,      \* TransactionPool.max_size
    pool_last,          \* the last call on the pool and what it did
    chain_lock,         \* who holds the Mutex<Chain> of main ("free": nobody)
    rq                  \* per thread: the request or command it is executing

(***************************************************************************)
(* storage/mod.rs: the sled trees that the ledger reads and writes.        *)
(***************************************************************************)
EmptyDisk ==
    [blocks |-> EmptyMap, block_index |-> EmptyMap, journal |-> EmptyMap,
     utxos |-> EmptyMap]

\* bincode::serialize(block): cached_hash is #[serde(skip)]
SerializeBlock(b) == [b EXCEPT !.cached_hash = NoHash]

\* PersistentStorage::create_journal_entry: timestamp is Utc::now()
CreateJournalEntry(journal, jid, operation) ==
    MapPut(journal, jid,
           [id |-> jid, timestamp |-> now, operation |-> operation,
            committed |-> FALSE])

\* PersistentStorage::commit_journal_entry
CommitJournalEntry(journal, jid) ==
    IF jid \in DOMAIN journal
    THEN MapPut(journal, jid, [journal[jid] EXCEPT !.committed = TRUE])
    ELSE journal

\* PersistentStorage::store_utxo: a CreateUtxo journal entry that is never
\* committed, then the utxos tree.  Blockchain never calls it.
StoreUtxo(d, jid, utxo_id, utxo_entry) ==
    [d EXCEPT !.journal = CreateJournalEntry(d.journal, jid,
                              [kind |-> "CreateUtxo", utxo_id |-> utxo_id,
                               utxo_entry |-> utxo_entry]),
              !.utxos = MapPut(d.utxos, utxo_id, utxo_entry)]

\* PersistentStorage::remove_utxo: load_utxo first (NotFound ends the call),
\* then a SpendUtxo journal entry, then the removal
RemoveUtxo(d, jid, utxo_id, spent_at_height) ==
    IF utxo_id \notin DOMAIN d.utxos THEN d
    ELSE [d EXCEPT !.journal = CreateJournalEntry(d.journal, jid,
                                   [kind |-> "SpendUtxo", utxo_id |-> utxo_id,
                                    spent_at_height |-> spent_at_height]),
                   !.utxos = MapDel(d.utxos, utxo_id)]

DayTicks == 1   \* chrono::Duration::days(1), in ticks of the wall clock

\* PersistentStorage::compact: committed entries older than a day go
Compact(d) ==
    [d EXCEPT !.journal =
        [id \in {k \in DOMAIN d.journal :
                   ~(d.journal[k].committed /\ d.journal[k].timestamp < now - DayTicks)}
           |-> d.journal[id]]]

StoreSteps == 4   \* journal entry, block record, block index, commit

\* PersistentStorage::store_block, carried out up to and including step `upto`
\* (StoreSteps = the whole function; less = it stopped after that many writes)
StoreBlock(d, jid, b, upto) ==
    LET d1 == IF upto >= 1
              THEN [d EXCEPT !.journal =
                       CreateJournalEntry(d.journal, jid,
                           [kind |-> "AddBlock", block_hash |-> BlockHash(b),
                            block_index |-> b.index])]
              ELSE d
        d2 == IF upto >= 2
              THEN [d1 EXCEPT !.blocks = MapPut(d1.blocks, BlockHash(b), SerializeBlock(b))]
              ELSE d1
        d3 == IF upto >= 3
              THEN [d2 EXCEPT !.block_index = MapPut(d2.block_index, b.index, BlockHash(b))]
              ELSE d2
    IN IF upto >= 4 THEN [d3 EXCEPT !.journal = CommitJournalEntry(d3.journal, jid)] ELSE d3

\* ascending enumeration of a finite set of heights (sled iterates keys in order)
RECURSIVE SortedSeq(_)
SortedSeq(S) ==
    IF S = {} THEN <<>>
    ELSE LET m == CHOOSE x \in S : \A y \in S : x <= y
         IN <<m>> \o SortedSeq(S \ {m})

\* PersistentStorage::load_all_blocks: [err, blocks]
LoadAllBlocks(d) ==
    LET hs == SortedSeq(DOMAIN d.block_index)
    IN IF \E i \in DOMAIN hs : d.block_index[hs[i]] \notin DOMAIN d.blocks
       THEN [err |-> "NotFound", blocks |-> <<>>]
       ELSE [err |-> "Ok",
             blocks |-> [i \in DOMAIN hs |-> d.blocks[d.block_index[hs[i]]]]]

(***************************************************************************)
(* core/blockchain.rs                                                      *)
(***************************************************************************)
UtxoId(tx_hash, output_index) == [tx_hash |-> tx_hash, output_index |-> output_index]

\* the utxo_map handed to validation: UtxoId::to_string() -> output
UtxoMap(utxo) ==
    [k \in {UtxoKey(id.tx_hash, id.output_index) : id \in DOMAIN utxo} |->
        utxo[UtxoId(k[1], k[2])].output]

\* the input loop of apply_block_to_utxo_set for one transaction
RECURSIVE ApplyInputs(_, _)
ApplyInputs(utxo, inputs) ==
    IF inputs = <<>> THEN [ok |-> TRUE, utxo |-> utxo]
    ELSE IF InputIsCoinbase(inputs[1]) THEN ApplyInputs(utxo, Tail(inputs))
    ELSE LET id == UtxoId(inputs[1].previous_tx_hash, inputs[1].output_index) IN
         IF id \in DOMAIN utxo THEN ApplyInputs(MapDel(utxo, id), Tail(inputs))
         ELSE [ok |-> FALSE, utxo |-> utxo]

\* the output loop of apply_block_to_utxo_set for one transaction
RECURSIVE ApplyOutputs(_, _, _, _)
ApplyOutputs(utxo, tx, k, height) ==
    IF k > Len(tx.outputs) THEN utxo
    ELSE ApplyOutputs(
            MapPut(utxo, UtxoId(TxHash(tx), k - 1),
                   [output |-> tx.outputs[k], block_height |-> height]),
            tx, k + 1, height)

RECURSIVE ApplyTxs(_, _, _)
ApplyTxs(utxo, txs, height) ==
    IF txs = <<>> THEN [ok |-> TRUE, utxo |-> utxo]
    ELSE LET r == ApplyInputs(utxo, txs[1].inputs) IN
         IF ~r.ok THEN r
         ELSE ApplyTxs(ApplyOutputs(r.utxo, txs[1], 1, height), Tail(txs), height)

\* Blockchain::apply_block_to_utxo_set: [ok, utxo]; on failure utxo is the
\* set as the function left it
ApplyBlockToUtxoSet(utxo, b) == ApplyTxs(utxo, b.transactions, b.index)

\* x >> n on u64: a shift by the width or more panics in a build with
\* overflow checks and shifts by n modulo the width in a build without them
ShrOutcomes(x, n) ==
    IF n < U64Bits THEN {[panic |-> FALSE, value |-> x \div Pow2(n)]}
    ELSE {[panic |-> TRUE, value |-> 0],
          [panic |-> FALSE, value |-> x \div Pow2(n % U64Bits)]}

\* Blockchain::calculate_block_reward under a given configuration: the
\* outcomes the build can produce
BlockRewardOutcomes(block_reward, halving_interval, height) ==
    LET halvings == height \div halving_interval
    IN {[panic |-> o.panic, value |-> IF o.panic THEN 0 ELSE Max(o.value, 1)] :
           o \in ShrOutcomes(block_reward, halvings)}

\* Blockchain::calculate_block_reward, in a build without overflow checks
CalculateBlockReward(height) ==
    (CHOOSE o \in BlockRewardOutcomes(BlockRewardCfg, HalvingInterval, height) :
        ~o.panic).value

\* (x / y).round() for x >= 0, y > 0: halves round away from zero
RoundDiv(x, y) == (2 * x + y) \div (2 * y)

\* Blockchain::calculate_next_difficulty under a configuration cfg, on the
\* headers hs of self.blocks; the f64 result is cast to u32 (saturating)
NextDifficultyWith(cfg, hs) ==
    IF Len(hs) < cfg.difficulty_adjustment_interval THEN cfg.initial_difficulty
    ELSE IF Len(hs) % cfg.difficulty_adjustment_interval # 0 THEN hs[Len(hs)].difficulty
    ELSE LET start == hs[Len(hs) - cfg.difficulty_adjustment_interval + 1]
             end   == hs[Len(hs)]
             taken == end.timestamp - start.timestamp
             expected == cfg.difficulty_adjustment_interval * cfg.target_block_time
             cur == end.difficulty
         IN Max(Min(IF 4 * taken <= expected THEN cur * 4
                    ELSE IF taken >= 4 * expected THEN RoundDiv(cur, 4)
                    ELSE RoundDiv(cur * expected, taken),
                    U32Max),
                1)

\* BlockchainConfig::default(), the fields the retarget reads
DefaultConfig ==
    [difficulty_adjustment_interval |-> DifficultyAdjustmentInterval,
     target_block_time |-> TargetBlockTime,
     initial_difficulty |-> InitialDifficulty]

\* Blockchain::calculate_next_difficulty
CalculateNextDifficulty(bs) ==
    NextDifficultyWith(DefaultConfig, [i \in DOMAIN bs |-> bs[i].header])

\* Blockchain::get_block_by_index (0-based), NoHash for None
GetBlockByIndex(bs, index) == IF index + 1 \in DOMAIN bs THEN bs[index + 1] ELSE NoHash

\* Blockchain::validate_block at time t
ValidateBlock(bs, utxo, b, t) ==
    LET prev == IF b.index = 0 THEN NoHash ELSE GetBlockByIndex(bs, b.index - 1)
        verr == BlockValidate(b, prev, UtxoMap(utxo), t)
    IN IF verr # "Ok" THEN verr
       ELSE IF b.header.difficulty # CalculateNextDifficulty(bs) THEN "InvalidDifficulty"
       ELSE IF b.header.timestamp > t + MaxFutureDrift THEN "InvalidTimestamp"
       ELSE IF bs # <<>> /\ b.header.timestamp <= bs[Len(bs)].header.timestamp
            THEN "InvalidTimestamp"
       ELSE "Ok"

\* add_block_internal without its pool loop
PoolUntouched(pool, txs) == pool

RECURSIVE RemoveFromPool(_, _)
RemoveFromPool(pool, txs) ==
    IF txs = <<>> THEN pool
    ELSE RemoveFromPool(MapDel(pool, TxHash(txs[1])), Tail(txs))

\* Blockchain::add_block_internal on the chain state c (blocks, utxo_set,
\* transaction_pool, block_index, disk); attached = storage.is_some(),
\* upto = how far store_block gets.  Returns [err, c].
AddBlockInternal(c, b, update_utxo, attached, jid, upto) ==
    LET r == IF update_utxo THEN ApplyBlockToUtxoSet(c.utxo_set, b)
             ELSE [ok |-> TRUE, utxo |-> c.utxo_set]
        c1 == [c EXCEPT !.utxo_set = r.utxo]
        c2 == [c1 EXCEPT !.transaction_pool = RemoveFromPool(@, b.transactions),
                         !.block_index = MapPut(@, BlockHash(b), b.index),
                         !.blocks = Append(@, b)]
        c3 == IF attached THEN [c2 EXCEPT !.disk = StoreBlock(@, jid, b, upto)] ELSE c2
    IN IF ~r.ok THEN [err |-> "UtxoNotFound", c |-> c1]
       ELSE IF attached /\ upto < StoreSteps THEN [err |-> "DatabaseError", c |-> c3]
       ELSE [err |-> "Ok", c |-> c3]

\* Blockchain::rebuild_utxo_set: [ok, utxo]
RECURSIVE RebuildFrom(_, _)
RebuildFrom(utxo, bs) ==
    IF bs = <<>> THEN [ok |-> TRUE, utxo |-> utxo]
    ELSE LET r == ApplyBlockToUtxoSet(utxo, bs[1]) IN
         IF ~r.ok THEN r ELSE RebuildFrom(r.utxo, Tail(bs))

RebuildUtxoSet(bs) == RebuildFrom(EmptyMap, bs)

\* Blockchain::verify_chain
VerifyChain(bs, utxo, t) ==
    FirstError([i \in DOMAIN bs |->
        BlockValidate(bs[i], IF i = 1 THEN NoHash ELSE bs[i - 1], UtxoMap(utxo), t)])

\* Blockchain::new(config, genesis_address) at time t: the chain state
NewChain(genesis_address, t, d) ==
    AddBlockInternal([blocks |-> <<>>, utxo_set |-> EmptyMap,
                      transaction_pool |-> EmptyMap, block_index |-> EmptyMap,
                      disk |-> d],
                     GenesisBlock(genesis_address, BlockRewardCfg, t),
                     TRUE, FALSE, 0, StoreSteps).c

\* the loop of Blockchain::load_from_storage over the stored blocks
RECURSIVE LoadBlocks(_, _, _)
LoadBlocks(c, stored, jid) ==
    IF stored = <<>> THEN c
    ELSE LoadBlocks(AddBlockInternal(c, stored[1], FALSE, TRUE, jid, StoreSteps).c,
                    Tail(stored), jid)

\* Blockchain::with_storage(config, storage, genesis_address): [err, c]
WithStorage(genesis_address, t, d, jid) ==
    LET c0 == NewChain(genesis_address, t, d)
        ld == LoadAllBlocks(d)
        c1 == LoadBlocks(c0, ld.blocks, jid)
        rb == RebuildUtxoSet(c1.blocks)
    IN IF ld.err # "Ok" THEN [err |-> ld.err, c |-> c0]
       ELSE IF ~rb.ok THEN [err |-> "UtxoNotFound", c |-> [c1 EXCEPT !.utxo_set = rb.utxo]]
       ELSE [err |-> "Ok", c |-> [c1 EXCEPT !.utxo_set = rb.utxo]]

(***************************************************************************)
(* rust-03/chain_kv_full/src/main.rs: the key/value chain.  A String hash  *)
(* is a record: a literal ("GENESIS", "0"), the SHA-256 of a byte string,  *)
(* of a pair of hex strings, or of the five hashed fields of a block.      *)
(***************************************************************************)
KVInitialDifficulty == 1             \* Chain::genesis(3), scaled
KVMaxDifficulty == 2                 \* the largest difficulty accepted (9), scaled
KVDigestMod == 8                     \* values of the leading hex digits of a hash

KVKeys == {"a"}
KVValues == {"x"}
KVTamperValues == {"y"}             \* values only an edited file holds
KVKeyFiles == {"k1"}

KVStr(s) == [h |-> "str", s |-> s]

KVPut(key, value) == [op |-> "Put", key |-> key, value |-> value]
KVDelOp(key) == [op |-> "Del", key |-> key, value |-> ""]

\* the leaf hash of merkle_root: sha256("PUT" key value) or sha256("DEL" key)
KVOpHash(op) ==
    [h |-> "sha",
     bytes |-> IF op.op = "Put" THEN "PUT" \o op.key \o op.value ELSE "DEL" \o op.key]

\* one pass of the while loop of merkle_root: the last is paired with itself if odd
RECURSIVE KVMerkleLevel(_)
KVMerkleLevel(hashes) ==
    IF hashes = <<>> THEN <<>>
    ELSE IF Len(hashes) = 1 THEN <<[h |-> "node", l |-> hashes[1], r |-> hashes[1]]>>
    ELSE <<[h |-> "node", l |-> hashes[1], r |-> hashes[2]]>>
            \o KVMerkleLevel(Tail(Tail(hashes)))

RECURSIVE KVMerkleReduce(_)
KVMerkleReduce(hashes) ==
    IF Len(hashes) = 1 THEN hashes[1] ELSE KVMerkleReduce(KVMerkleLevel(hashes))

\* merkle_root(ops)
KVMerkleRoot(ops) ==
    IF ops = <<>> THEN KVStr("0")
    ELSE KVMerkleReduce([i \in DOMAIN ops |-> KVOpHash(ops[i])])

\* Block::compute_hash
KVComputeHash(index, timestamp, merkle_root, prev_hash, nonce) ==
    [h |-> "blk", index |-> index, timestamp |-> timestamp,
     merkle_root |-> merkle_root, prev_hash |-> prev_hash, nonce |-> nonce]

\* the number a hash value stands for, computed from everything that was hashed
RECURSIVE KVDigest(_)
KVDigest(hash) ==
    CASE hash.h = "str" -> Len(hash.s)
      [] hash.h = "sha" -> Len(hash.bytes)
      [] hash.h = "node" -> KVDigest(hash.l) + KVDigest(hash.r) + 1
      [] hash.h = "blk" -> hash.index + 5 * hash.timestamp + 3 * hash.nonce
                             + KVDigest(hash.merkle_root) + KVDigest(hash.prev_hash)

\* how many '0' characters the hex string of a hash starts with
KVLeadingZeros(hash) ==
    IF hash.h = "str" THEN (IF hash.s = "0" THEN 1 ELSE 0)
    ELSE LET v == KVDigest(hash) % KVDigestMod
         IN IF v = 0 THEN 3 ELSE IF v = 1 THEN 2 ELSE IF v < 4 THEN 1 ELSE 0

\* hash.starts_with(&"0".repeat(difficulty))
KVStartsWithZeros(hash, difficulty) == KVLeadingZeros(hash) >= difficulty

\* the loop of Block::mine_with_progress from a given nonce: [nonce, hash]
RECURSIVE KVMineFrom(_, _, _, _, _, _)
KVMineFrom(index, timestamp, merkle_root, prev_hash, difficulty, nonce) ==
    LET candidate == KVComputeHash(index, timestamp, merkle_root, prev_hash, nonce)
    IN IF KVStartsWithZeros(candidate, difficulty)
       THEN [nonce |-> nonce, hash |-> candidate]
       ELSE KVMineFrom(index, timestamp, merkle_root, prev_hash, difficulty, nonce + 1)

\* keypair.sign(hash) and keypair.verifying_key()
KVSign(keypair, hash) == [signer |-> keypair.key, msg |-> hash]
KVVerifyingKey(keypair) == [pub |-> keypair.key]

\* Block::new(index, ops, prev_hash, difficulty, keypair, _) at unix second t
KVNewBlock(index, ops, prev_hash, difficulty, keypair, t) ==
    LET mr == KVMerkleRoot(ops)
        m == KVMineFrom(index, t, mr, prev_hash, difficulty, 0)
    IN [index |-> index, timestamp |-> t, ops |-> ops, prev_hash |-> prev_hash,
        merkle_root |-> mr, nonce |-> m.nonce, hash |-> m.hash,
        signature |-> KVSign(keypair, m.hash),
        signer_pubkey |-> KVVerifyingKey(keypair)]

\* Block::verify(prev_hash, difficulty)
KVBlockVerify(b, prev_hash, difficulty) ==
    IF b.prev_hash # prev_hash THEN "prev_hash mismatch"
    ELSE IF KVComputeHash(b.index, b.timestamp, b.merkle_root, b.prev_hash, b.nonce) # b.hash
         THEN "hash mismatch"
    ELSE IF ~KVStartsWithZeros(b.hash, difficulty) THEN "insufficient PoW"
    ELSE IF b.signature # NoHash /\ b.signer_pubkey # NoHash
            /\ ~(b.signature.msg = b.hash /\ b.signature.signer = b.signer_pubkey.pub)
         THEN "signature verify failed"
    ELSE "Ok"

\* Chain::genesis(difficulty)
KVGenesis(difficulty) ==
    [blocks |-> <<[index |-> 0, timestamp |-> 0,
                   ops |-> <<KVPut("__genesis__", "ok")>>,
                   prev_hash |-> KVStr("0"), merkle_root |-> KVStr("GENESIS"),
                   nonce |-> 0, hash |-> KVStr("GENESIS"),
                   signature |-> NoHash, signer_pubkey |-> NoHash]>>,
     difficulty |-> difficulty,
     batch_active |-> FALSE,
     batch_ops |-> <<>>]

\* Chain::last_hash and Chain::next_index
KVLastHash(c) == IF c.blocks = <<>> THEN KVStr("0") ELSE c.blocks[Len(c.blocks)].hash
KVNextIndex(c) == IF c.blocks = <<>> THEN 0 ELSE c.blocks[Len(c.blocks)].index + 1

\* Chain::append_signed(ops, keypair, _) at unix second t
KVAppendSigned(c, ops, keypair, t) ==
    [c EXCEPT !.blocks =
        Append(@, KVNewBlock(KVNextIndex(c), ops, KVLastHash(c), c.difficulty, keypair, t))]

\* Chain::verify_all
KVVerifyAll(c) ==
    IF c.blocks = <<>> THEN "empty chain"
    ELSE FirstError([i \in 1..(Len(c.blocks) - 1) |->
            KVBlockVerify(c.blocks[i + 1], c.blocks[i].hash, c.difficulty)])

\* one arm of the match in Chain::materialize
KVApplyOp(state, op) ==
    IF op.op = "Put"
    THEN (IF op.key # "__genesis__" THEN MapPut(state, op.key, op.value) ELSE state)
    ELSE MapDel(state, op.key)

\* the loops of Chain::materialize from op j of block i on
RECURSIVE KVMaterializeFrom(_, _, _, _)
KVMaterializeFrom(bs, state, i, j) ==
    IF i > Len(bs) THEN state
    ELSE IF j > Len(bs[i].ops) THEN KVMaterializeFrom(bs, state, i + 1, 1)
    ELSE KVMaterializeFrom(bs, KVApplyOp(state, bs[i].ops[j]), i, j + 1)

\* Chain::materialize
KVMaterialize(c) == KVMaterializeFrom(c.blocks, EmptyMap, 1, 1)

\* Chain::begin_batch, add_put / add_del, abort_batch, commit_batch: [err, c]
KVBeginBatch(c) ==
    IF c.batch_active THEN [err |-> "batch already active", c |-> c]
    ELSE [err |-> "Ok", c |-> [c EXCEPT !.batch_active = TRUE, !.batch_ops = <<>>]]

\* add_put / add_del without the batch_active test
KVAddOpUnguarded(c, op) == [err |-> "Ok", c |-> [c EXCEPT !.batch_ops = Append(@, op)]]

KVAddOp(c, op) ==
    IF ~c.batch_active THEN [err |-> "no active batch", c |-> c]
    ELSE [err |-> "Ok", c |-> [c EXCEPT !.batch_ops = Append(@, op)]]

KVAbortBatch(c) == [c EXCEPT !.batch_active = FALSE, !.batch_ops = <<>>]

\* commit_batch with batch_ops cloned instead of taken
KVCommitKeepsOps(c, keypair, t) ==
    IF ~c.batch_active THEN [err |-> "no active batch", c |-> c]
    ELSE [err |-> "Ok",
          c |-> KVAppendSigned([c EXCEPT !.batch_active = FALSE], c.batch_ops, keypair, t)]

KVCommitBatch(c, keypair, t) ==
    IF ~c.batch_active THEN [err |-> "no active batch", c |-> c]
    ELSE [err |-> "Ok",
          c |-> KVAppendSigned([c EXCEPT !.batch_ops = <<>>, !.batch_active = FALSE],
                               c.batch_ops, keypair, t)]

\* Chain::save writes serde_json of the whole Chain; Chain::load parses it back
KVSerialize(c) == [json |-> "Chain", blocks |-> c.blocks, difficulty |-> c.difficulty,
                   batch_active |-> c.batch_active, batch_ops |-> c.batch_ops]
KVDeserialize(f) == [blocks |-> f.blocks, difficulty |-> f.difficulty,
                     batch_active |-> f.batch_active, batch_ops |-> f.batch_ops]

(***************************************************************************)
(* The ledger as a state machine.                                          *)
(***************************************************************************)
ledgerVars == <<blocks, utxo_set, transaction_pool, block_index, storage,
                next_journal_id, disk, now, cand, res, up, crashed>>

kvVars == <<kv_blocks, kv_difficulty, kv_batch_active, kv_batch_ops, kv_keypair,
            kv_file, kv_tampered, kv_res>>

powVars == <<is_mining, pm_config, pm_pc, pm_nonce, pm_attempts, pm_elapsed,
             pm_result, pm_stop_seen, pm_hashes_after>>

fnVars == <<fn_call>>

poolVars == <<pool_transactions, pool_priority_queue, pool_max_size, pool_last>>

serveVars == <<chain_lock, rq>>

vars == <<ledgerVars, kvVars, powVars, fnVars, poolVars, serveVars>>

NoCrash == [step |-> 0, pre |-> <<>>]
RecipientAddr == "bob"
TxTimestamp == 1
BogusRef == UtxoId(ZeroHash, 0)

ChainState == [blocks |-> blocks, utxo_set |-> utxo_set,
               transaction_pool |-> transaction_pool,
               block_index |-> block_index, disk |-> disk]

SetChain(c) ==
    /\ blocks' = c.blocks
    /\ utxo_set' = c.utxo_set
    /\ transaction_pool' = c.transaction_pool
    /\ block_index' = c.block_index
    /\ disk' = c.disk

PoolTxs == {transaction_pool[k] : k \in DOMAIN transaction_pool}

\* Uuid::new_v4() never repeats: a new transaction gets the first uuid that
\* no transaction of the pool or of the chain carries
UsedUuids ==
    {tx.id[2] : tx \in {t \in PoolTxs : t.id[1] = "uuid"}}
      \cup UNION {{blocks[i].transactions[j].id[2] :
                     j \in {k \in DOMAIN blocks[i].transactions :
                               blocks[i].transactions[k].id[1] = "uuid"}} :
                  i \in DOMAIN blocks}

FreshUuids ==
    {u \in 1..MaxTxId : u \notin UsedUuids /\ \A v \in 1..(u - 1) : v \in UsedUuids}

\* the transactions a client may hand to add_transaction_to_pool: one input,
\* signed or not, on an unspent or an unknown output, at either fee level; or
\* the same unspent output named by two inputs
SpendOnce ==
    {NewTx(u, <<NewInput(r.tx_hash, r.output_index, sg)>>,
           <<NewOutput(a, RecipientAddr)>>, f, TxTimestamp) :
        u \in FreshUuids, r \in (DOMAIN utxo_set) \cup {BogusRef}, sg \in BOOLEAN,
        a \in TxAmounts, f \in FeeLevels}

SpendTwice ==
    {NewTx(u, <<NewInput(r.tx_hash, r.output_index, TRUE),
                NewInput(r.tx_hash, r.output_index, TRUE)>>,
           <<NewOutput(a, RecipientAddr)>>, 1, TxTimestamp) :
        u \in FreshUuids, r \in DOMAIN utxo_set, a \in TxAmounts \ {0}}

TxCandidates == SpendOnce \cup SpendTwice

\* the orders in which n distinct elements of S can be met
RECURSIVE Arrangements(_, _)
Arrangements(S, n) ==
    IF n = 0 THEN {<<>>}
    ELSE UNION {{<<x>> \o p : p \in Arrangements(S \ {x}, n - 1)} : x \in S}

LedgerInit ==
    /\ now = 1
    /\ \E st \in BOOLEAN :
         LET c == IF st THEN WithStorage(GenesisAddress, 1, EmptyDisk, 0).c
                  ELSE NewChain(GenesisAddress, 1, EmptyDisk)
         IN /\ blocks = c.blocks
            /\ utxo_set = c.utxo_set
            /\ transaction_pool = c.transaction_pool
            /\ block_index = c.block_index
            /\ disk = c.disk
            /\ storage = st
    /\ next_journal_id = 0
    /\ cand = NoHash
    /\ res = [op |-> "new", err |-> "Ok"]
    /\ up = TRUE
    /\ crashed = NoCrash

\* the wall clock advances
Tick ==
    /\ UNCHANGED <<kvVars, powVars, fnVars, poolVars, serveVars>>
    /\ now < MaxTime
    /\ now' = now + 1
    /\ UNCHANGED <<blocks, utxo_set, transaction_pool, block_index, storage,
                   next_journal_id, disk, cand, res, up, crashed>>

\* Blockchain::add_transaction_to_pool
AddTransactionToPool(tx) ==
    /\ UNCHANGED <<kvVars, powVars, fnVars, poolVars, serveVars>>
    /\ up
    /\ Len(blocks) < MaxBlocks
    /\ Cardinality(DOMAIN transaction_pool) < MaxPool
    /\ LET verr == TxValidate(tx, UtxoMap(utxo_set))
           missing == \E i \in DOMAIN tx.inputs :
                        /\ ~InputIsCoinbase(tx.inputs[i])
                        /\ UtxoId(tx.inputs[i].previous_tx_hash, tx.inputs[i].output_index)
                              \notin DOMAIN utxo_set
           err == IF verr # "Ok" THEN verr
                  ELSE IF missing THEN "UtxoNotFound" ELSE "Ok"
       IN /\ res' = [op |-> "add_transaction_to_pool", err |-> err]
          /\ transaction_pool' = IF err = "Ok"
                                 THEN MapPut(transaction_pool, TxHash(tx), tx)
                                 ELSE transaction_pool
    /\ UNCHANGED <<blocks, utxo_set, block_index, storage, next_journal_id, disk,
                   now, cand, up, crashed>>

\* Blockchain::create_block(miner_address); sel is the order in which
\* transaction_pool.values() yields the entries that take(max_tx) keeps
CreateBlock(miner_address, sel) ==
    /\ UNCHANGED <<kvVars, powVars, fnVars, poolVars, serveVars>>
    /\ up
    /\ Len(blocks) < MaxBlocks
    /\ LET previous_hash == IF blocks # <<>> THEN BlockHash(blocks[Len(blocks)]) ELSE ZeroHash
           next_index == Len(blocks)
           difficulty == CalculateNextDifficulty(blocks)
           coinbase_tx == CoinbaseTx(miner_address, CalculateBlockReward(next_index),
                                     next_index, now)
       IN cand' = NewBlock(next_index, previous_hash, <<coinbase_tx>> \o sel, difficulty, now)
    /\ res' = [op |-> "create_block", err |-> "Ok"]
    /\ UNCHANGED <<blocks, utxo_set, transaction_pool, block_index, storage,
                   next_journal_id, disk, now, up, crashed>>

\* Block::mine on the block the caller holds
MineBlock ==
    /\ UNCHANGED <<kvVars, powVars, fnVars, poolVars, serveVars>>
    /\ up
    /\ Len(blocks) < MaxBlocks
    /\ cand # NoHash
    /\ cand' = BlockMineResult(cand).block
    /\ res' = [op |-> "mine", err |-> BlockMineResult(cand).err]
    /\ UNCHANGED <<blocks, utxo_set, transaction_pool, block_index, storage,
                   next_journal_id, disk, now, up, crashed>>

\* Blockchain::add_block(block) on a block b the caller hands over; upto is
\* how far store_block gets before the database reports an error
\* (StoreSteps: no error)
AddBlock(b, upto) ==
    /\ UNCHANGED <<kvVars, powVars, fnVars, poolVars, serveVars>>
    /\ up
    /\ b # NoHash
    /\ Len(blocks) < MaxBlocks
    /\ LET verr == ValidateBlock(blocks, utxo_set, b, now)
           mined == IF MeetsDifficultyTarget(b.header) THEN b ELSE BlockMine(b)
           r == AddBlockInternal(ChainState, mined, TRUE, storage, next_journal_id, upto)
       IN IF verr # "Ok"
          THEN /\ res' = [op |-> "add_block", err |-> verr]
               /\ UNCHANGED <<blocks, utxo_set, transaction_pool, block_index, disk>>
          ELSE /\ res' = [op |-> "add_block", err |-> r.err]
               /\ SetChain(r.c)
    /\ cand' = IF b = cand THEN NoHash ELSE cand
    /\ UNCHANGED <<storage, next_journal_id, now, up, crashed>>

\* the process stops inside store_block, after `upto` of its writes
AddBlockCrash(upto) ==
    /\ UNCHANGED <<kvVars, powVars, fnVars, poolVars, serveVars>>
    /\ up
    /\ cand # NoHash
    /\ storage
    /\ Len(blocks) < MaxBlocks
    /\ ValidateBlock(blocks, utxo_set, cand, now) = "Ok"
    /\ ApplyBlockToUtxoSet(utxo_set, cand).ok
    /\ disk' = StoreBlock(disk, next_journal_id, cand, upto)
    /\ crashed' = [step |-> upto, pre |-> blocks]
    /\ up' = FALSE
    /\ cand' = NoHash
    /\ res' = [op |-> "crash", err |-> "Ok"]
    /\ UNCHANGED <<blocks, utxo_set, transaction_pool, block_index, storage,
                   next_journal_id, now>>

\* the process starts again: PersistentStorage::new on the same path, then
\* Blockchain::with_storage
Restart ==
    /\ UNCHANGED <<kvVars, powVars, fnVars, poolVars, serveVars>>
    /\ Cardinality(DOMAIN disk.journal) < MaxJournal
    /\ LET jid == Cardinality(DOMAIN disk.journal)
           r == WithStorage(GenesisAddress, now, disk, jid)
       IN /\ next_journal_id' = jid
          /\ SetChain(r.c)
          /\ res' = [op |-> "with_storage", err |-> r.err]
          /\ up' = (r.err = "Ok")
    /\ storage' = TRUE
    /\ cand' = NoHash
    /\ crashed' = IF up THEN NoCrash ELSE crashed
    /\ UNCHANGED now

\* the blocks a caller may build with Block::new from what it can see and
\* mine with Block::mine before handing them to add_block
ForgeIndexes == 0..Len(blocks)
ForgePrevHashes == {BlockHash(blocks[i]) : i \in DOMAIN blocks} \cup {ZeroHash}
ForgeTxLists ==
    UNION {{cb \o sel : sel \in Arrangements(PoolTxs, n)} :
            n \in 0..Min(2, Cardinality(PoolTxs)),
            cb \in {<<>>, <<CoinbaseTx(MinerAddress, CalculateBlockReward(Len(blocks)),
                                      Len(blocks), now)>>}} \ {<<>>}
ForgedBlocks ==
    {BlockMine(NewBlock(i, ph, txs, CalculateNextDifficulty(blocks), now)) :
        i \in ForgeIndexes, ph \in ForgePrevHashes, txs \in ForgeTxLists}

PoolSelections ==
    Arrangements(PoolTxs, Min(MaxTransactionsPerBlock - 1, Cardinality(PoolTxs)))

(***************************************************************************)
(* The key/value chain as a state machine: the commands of main.           *)
(***************************************************************************)
KVChain == [blocks |-> kv_blocks, difficulty |-> kv_difficulty,
            batch_active |-> kv_batch_active, batch_ops |-> kv_batch_ops]

KVSetChain(c) ==
    /\ kv_blocks' = c.blocks
    /\ kv_difficulty' = c.difficulty
    /\ kv_batch_active' = c.batch_active
    /\ kv_batch_ops' = c.batch_ops

KVOps == {KVPut(k, v) : k \in KVKeys, v \in KVValues} \cup {KVDelOp(k) : k \in KVKeys}
KVTimes == 1..KVMaxTime
KVTamperedOps ==
    {<<op>> : op \in KVOps \cup {KVPut(k, v) : k \in KVKeys, v \in KVTamperValues}}

KVInit ==
    /\ kv_blocks = KVGenesis(KVInitialDifficulty).blocks
    /\ kv_difficulty = KVGenesis(KVInitialDifficulty).difficulty
    /\ kv_batch_active = KVGenesis(KVInitialDifficulty).batch_active
    /\ kv_batch_ops = KVGenesis(KVInitialDifficulty).batch_ops
    /\ kv_keypair = NoHash
    /\ kv_file = NoHash
    /\ kv_tampered = FALSE
    /\ kv_res = [op |-> "genesis", err |-> "Ok"]

\* "loadkey <file>" on a key file written by keygen
KVLoadKey(k) ==
    /\ kv_keypair' = [key |-> k]
    /\ kv_res' = [op |-> "loadkey", err |-> "Ok"]
    /\ UNCHANGED <<kv_blocks, kv_difficulty, kv_batch_active, kv_batch_ops,
                   kv_file, kv_tampered>>
    /\ UNCHANGED <<ledgerVars, powVars, fnVars, poolVars, serveVars>>

\* "set <key> <value>" and "del <key>": a single-op block, mined at second t
KVSingleOp(op, t) ==
    /\ Len(kv_blocks) < MaxKVBlocks
    /\ IF kv_keypair = NoHash
       THEN /\ kv_res' = [op |-> "set", err |-> "no signing key loaded"]
            /\ UNCHANGED <<kv_blocks, kv_difficulty, kv_batch_active, kv_batch_ops>>
       ELSE /\ kv_res' = [op |-> "set", err |-> "Ok"]
            /\ KVSetChain(KVAppendSigned(KVChain, <<op>>, kv_keypair, t))
    /\ UNCHANGED <<kv_keypair, kv_file, kv_tampered>>
    /\ UNCHANGED <<ledgerVars, powVars, fnVars, poolVars, serveVars>>

\* "begin"
KVBegin ==
    /\ LET r == KVBeginBatch(KVChain)
       IN /\ KVSetChain(r.c)
          /\ kv_res' = [op |-> "begin", err |-> r.err]
    /\ UNCHANGED <<kv_keypair, kv_file, kv_tampered>>
    /\ UNCHANGED <<ledgerVars, powVars, fnVars, poolVars, serveVars>>

\* "addput <key> <value>" and "adddel <key>"
KVAdd(op) ==
    /\ Len(kv_batch_ops) < MaxBatchOps
    /\ LET r == KVAddOp(KVChain, op)
       IN /\ KVSetChain(r.c)
          /\ kv_res' = [op |-> "add", arg |-> op, err |-> r.err]
    /\ UNCHANGED <<kv_keypair, kv_file, kv_tampered>>
    /\ UNCHANGED <<ledgerVars, powVars, fnVars, poolVars, serveVars>>

\* "abort"
KVAbort ==
    /\ KVSetChain(KVAbortBatch(KVChain))
    /\ kv_res' = [op |-> "abort", err |-> "Ok"]
    /\ UNCHANGED <<kv_keypair, kv_file, kv_tampered>>
    /\ UNCHANGED <<ledgerVars, powVars, fnVars, poolVars, serveVars>>

\* "commit": the batch becomes one block, mined at second t
KVCommit(t) ==
    /\ Len(kv_blocks) < MaxKVBlocks
    /\ IF kv_keypair = NoHash
       THEN /\ kv_res' = [op |-> "commit", err |-> "no signing key loaded"]
            /\ UNCHANGED <<kv_blocks, kv_difficulty, kv_batch_active, kv_batch_ops>>
       ELSE LET r == KVCommitBatch(KVChain, kv_keypair, t)
            IN /\ KVSetChain(r.c)
               /\ kv_res' = [op |-> "commit", err |-> r.err]
    /\ UNCHANGED <<kv_keypair, kv_file, kv_tampered>>
    /\ UNCHANGED <<ledgerVars, powVars, fnVars, poolVars, serveVars>>

\* "difficulty <n>"
KVDifficulty(n) ==
    /\ IF n >= 1 /\ n <= KVMaxDifficulty
       THEN /\ kv_difficulty' = n
            /\ kv_res' = [op |-> "difficulty", err |-> "Ok"]
       ELSE /\ kv_difficulty' = kv_difficulty
            /\ kv_res' = [op |-> "difficulty", err |-> "choose"]
    /\ UNCHANGED <<kv_blocks, kv_batch_active, kv_batch_ops, kv_keypair, kv_file,
                   kv_tampered>>
    /\ UNCHANGED <<ledgerVars, powVars, fnVars, poolVars, serveVars>>

\* Chain::verify_all as "verify" and GET /verify report it (what the shell
\* does after an Ok is in ShellVerify)
KVVerify ==
    /\ kv_res' = [op |-> "verify", err |-> KVVerifyAll(KVChain)]
    /\ UNCHANGED <<kv_blocks, kv_difficulty, kv_batch_active, kv_batch_ops,
                   kv_keypair, kv_file, kv_tampered>>
    /\ UNCHANGED <<ledgerVars, powVars, fnVars, poolVars, serveVars>>

\* "save <file>"
KVSave ==
    /\ kv_file' = KVSerialize(KVChain)
    /\ kv_tampered' = FALSE
    /\ kv_res' = [op |-> "save", err |-> "Ok"]
    /\ UNCHANGED <<kv_blocks, kv_difficulty, kv_batch_active, kv_batch_ops, kv_keypair>>
    /\ UNCHANGED <<ledgerVars, powVars, fnVars, poolVars, serveVars>>

\* somebody edits the saved file: the ops of the non-genesis block at
\* position i become `ops`, every other field stays as stored
KVTamperOps(i, ops) ==
    /\ kv_file # NoHash
    /\ ~kv_tampered
    /\ i \in 2..Len(kv_file.blocks)
    /\ ops # kv_file.blocks[i].ops
    /\ kv_file' = [kv_file EXCEPT !.blocks[i].ops = ops]
    /\ kv_tampered' = TRUE
    /\ UNCHANGED <<kv_blocks, kv_difficulty, kv_batch_active, kv_batch_ops,
                   kv_keypair, kv_res>>
    /\ UNCHANGED <<ledgerVars, powVars, fnVars, poolVars, serveVars>>

\* "load <file>": the loaded chain replaces the chain only if verify_all accepts
\* it (the println! that follows is in ShellLoadPrint)
KVLoad ==
    /\ IF kv_file = NoHash
       THEN /\ kv_res' = [op |-> "load", err |-> "load error"]
            /\ UNCHANGED <<kv_blocks, kv_difficulty, kv_batch_active, kv_batch_ops>>
       ELSE LET loaded == KVDeserialize(kv_file)
                err == KVVerifyAll(loaded)
            IN /\ kv_res' = [op |-> "load", err |-> err]
               /\ IF err = "Ok" THEN KVSetChain(loaded)
                  ELSE UNCHANGED <<kv_blocks, kv_difficulty, kv_batch_active, kv_batch_ops>>
    /\ UNCHANGED <<kv_keypair, kv_file, kv_tampered>>
    /\ UNCHANGED <<ledgerVars, powVars, fnVars, poolVars, serveVars>>

(***************************************************************************)
(* core/transaction.rs: TransactionPool.  A priority score is an f64: a    *)
(* number or NaN.                                                          *)
(***************************************************************************)
F64(v) == [nan |-> FALSE, v |-> v]
NaN == [nan |-> TRUE, v |-> 0]

\* base_fee as f64 * priority_multiplier
PriorityScore(tx) ==
    IF tx.priority_multiplier.nan THEN NaN
    ELSE F64(tx.base_fee * tx.priority_multiplier.v)

\* f64::partial_cmp(..).unwrap_or(Ordering::Equal)
PartialCmpOrEqual(a, b) ==
    IF a.nan \/ b.nan THEN "Equal"
    ELSE IF a.v < b.v THEN "Less"
    ELSE IF a.v > b.v THEN "Greater"
    ELSE "Equal"

\* a fold step that keeps the larger score instead
MaxByStep(acc, y) ==
    IF PartialCmpOrEqual(acc.score, y.score) = "Less" THEN y ELSE acc

\* one step of Iterator::min_by: the later element wins only when the
\* earlier compares Greater
MinByStep(acc, y) ==
    IF PartialCmpOrEqual(acc.score, y.score) = "Greater" THEN y ELSE acc

\* Iterator::min_by over the entries in the order the HashMap yields them
RECURSIVE MinByFrom(_, _, _)
MinByFrom(entries, acc, i) ==
    IF i > Len(entries) THEN acc
    ELSE MinByFrom(entries, MinByStep(acc, entries[i]), i + 1)

\* TransactionPool::remove_transaction on [transactions, priority_queue]
PoolRemoveTransaction(pool, tx_hash) ==
    [transactions |-> MapDel(pool.transactions, tx_hash),
     priority_queue |-> MapDel(pool.priority_queue, tx_hash)]

\* TransactionPool::evict_lowest_priority; order is the order in which
\* priority_queue.iter() yields the keys.  Returns [pool, evicted].
EvictLowestPriority(pool, order) ==
    IF order = <<>> THEN [pool |-> pool, evicted |-> NoHash]
    ELSE LET entries == [i \in DOMAIN order |->
                           [hash |-> order[i], score |-> pool.priority_queue[order[i]]]]
             lowest == MinByFrom(entries, entries[1], 2)
         IN [pool |-> PoolRemoveTransaction(pool, lowest.hash), evicted |-> lowest.hash]

\* TransactionPool::add_transaction.  Returns [err, pool, full, evicted].
PoolAddTransaction(pool, max_size, transaction, order) ==
    LET tx_hash == TxHash(transaction)
        full == Cardinality(DOMAIN pool.transactions) >= max_size
        e == IF full THEN EvictLowestPriority(pool, order)
             ELSE [pool |-> pool, evicted |-> NoHash]
    IN [err |-> "Ok",
        pool |-> [transactions |-> MapPut(e.pool.transactions, tx_hash, transaction),
                  priority_queue |-> MapPut(e.pool.priority_queue, tx_hash,
                                            PriorityScore(transaction))],
        full |-> full,
        evicted |-> e.evicted]

\* the threads that use the Arc<Mutex<Chain>> of main: the shell loop and the
\* tasks serving HTTP requests
Threads == {"shell", "http1", "http2"}

\* before any command: nobody holds the chain mutex
ServeInit ==
    /\ chain_lock = "free"
    /\ rq = [t \in Threads |-> [pc |-> IF t = "shell" THEN "idle" ELSE "unserved"]]

\* TransactionPool::default()
PoolInit ==
    /\ pool_transactions = EmptyMap
    /\ pool_priority_queue = EmptyMap
    /\ pool_max_size = 0
    /\ pool_last = [op |-> "none"]

(***************************************************************************)
(* ProofOfWorkMiner: one thread inside mine(), other threads calling       *)
(* stop(). Every access to an atomic is a step of its own.                 *)
(***************************************************************************)
PowDifficulties == {1, PowBits}              \* config.difficulty
PowMaxAttempts == {{}, {2}}                  \* config.max_attempts: None, Some(2)
PowTimeouts == {{}, {1}}                     \* config.timeout_seconds: None, Some(1)
PowBlockData == {<<0>>, <<1>>}               \* the block_data handed to mine()

PowConfigs ==
    [difficulty : PowDifficulties, max_attempts : PowMaxAttempts,
     timeout_seconds : PowTimeouts, block_data : PowBlockData]

PowRunning == {"enter", "check_stop", "check_timeout", "check_max", "hash"}

\* MiningResult, the fields that the callers read
MiningResult(success, nonce, attempts, stop_reason) ==
    [err |-> "Ok", success |-> success, nonce |-> nonce, attempts |-> attempts,
     stop_reason |-> stop_reason]

PowInit ==
    /\ is_mining = FALSE
    /\ pm_config = NoHash
    /\ pm_pc = "none"
    /\ pm_nonce = 0
    /\ pm_attempts = 0
    /\ pm_elapsed = 0
    /\ pm_result = NoHash
    /\ pm_stop_seen = FALSE
    /\ pm_hashes_after = 0

FnIdle == fn_call = [f |-> "none"]

PowReturn(result) ==
    /\ pm_pc' = "done"
    /\ pm_result' = result

\* ProofOfWorkMiner::new(config)
PowNew(config) ==
    /\ pm_pc \in {"none", "idle", "done"}
    /\ pm_config' = config
    /\ is_mining' = FALSE
    /\ pm_pc' = "idle"
    /\ pm_nonce' = 0
    /\ pm_attempts' = 0
    /\ pm_elapsed' = 0
    /\ pm_result' = NoHash
    /\ pm_stop_seen' = FALSE
    /\ pm_hashes_after' = 0
    /\ UNCHANGED <<ledgerVars, kvVars, fnVars, poolVars, serveVars>>

\* a thread calls mine(): it has entered the function and not yet stored
\* anything
PowMineCall ==
    /\ pm_pc \in {"idle", "done"}
    /\ pm_pc' = "enter"
    /\ pm_result' = NoHash
    /\ pm_stop_seen' = FALSE
    /\ pm_hashes_after' = 0
    /\ UNCHANGED <<is_mining, pm_config, pm_nonce, pm_attempts, pm_elapsed>>
    /\ UNCHANGED <<ledgerVars, kvVars, fnVars, poolVars, serveVars>>

\* mine(): is_mining.store(true), the counters and the locals are reset
PowMineEnter ==
    /\ pm_pc = "enter"
    /\ is_mining' = TRUE
    /\ pm_nonce' = 0
    /\ pm_attempts' = 0
    /\ pm_elapsed' = 0
    /\ pm_pc' = "check_stop"
    /\ UNCHANGED <<pm_config, pm_result, pm_stop_seen, pm_hashes_after>>
    /\ UNCHANGED <<ledgerVars, kvVars, fnVars, poolVars, serveVars>>

\* mine(): if !self.is_mining.load() { return "Mining stopped by user" }
PowCheckStop ==
    /\ pm_pc = "check_stop"
    /\ IF ~is_mining
       THEN PowReturn(MiningResult(FALSE, NoHash, pm_attempts, "Mining stopped by user"))
       ELSE /\ pm_pc' = "check_timeout"
            /\ UNCHANGED pm_result
    /\ UNCHANGED <<is_mining, pm_config, pm_nonce, pm_attempts, pm_elapsed,
                   pm_stop_seen, pm_hashes_after>>
    /\ UNCHANGED <<ledgerVars, kvVars, fnVars, poolVars, serveVars>>

\* mine(): the timeout check
PowCheckTimeout ==
    /\ pm_pc = "check_timeout"
    /\ IF \E timeout \in pm_config.timeout_seconds : pm_elapsed >= timeout
       THEN PowReturn(MiningResult(FALSE, NoHash, pm_attempts, "Timeout reached"))
       ELSE /\ pm_pc' = "check_max"
            /\ UNCHANGED pm_result
    /\ UNCHANGED <<is_mining, pm_config, pm_nonce, pm_attempts, pm_elapsed,
                   pm_stop_seen, pm_hashes_after>>
    /\ UNCHANGED <<ledgerVars, kvVars, fnVars, poolVars, serveVars>>

\* a mine() whose loop has no max_attempts check
PowCheckMaxOff ==
    /\ pm_pc = "check_max"
    /\ pm_pc' = "hash"
    /\ UNCHANGED <<is_mining, pm_config, pm_nonce, pm_attempts, pm_elapsed,
                   pm_result, pm_stop_seen, pm_hashes_after>>
    /\ UNCHANGED <<ledgerVars, kvVars, fnVars, poolVars, serveVars>>

\* mine(): the max_attempts check
PowCheckMax ==
    /\ pm_pc = "check_max"
    /\ IF \E max_attempts \in pm_config.max_attempts : pm_attempts >= max_attempts
       THEN PowReturn(MiningResult(FALSE, NoHash, pm_attempts, "Maximum attempts reached"))
       ELSE /\ pm_pc' = "hash"
            /\ UNCHANGED pm_result
    /\ UNCHANGED <<is_mining, pm_config, pm_nonce, pm_attempts, pm_elapsed,
                   pm_stop_seen, pm_hashes_after>>
    /\ UNCHANGED <<ledgerVars, kvVars, fnVars, poolVars, serveVars>>

\* mine(): one hash attempt; on success is_mining.store(false) and return,
\* otherwise the next nonce
PowTryNonce ==
    /\ pm_pc = "hash"
    /\ pm_attempts' = pm_attempts + 1
    /\ pm_hashes_after' = IF pm_stop_seen THEN pm_hashes_after + 1 ELSE pm_hashes_after
    /\ IF HashMeetsTarget(PowHash(pm_config.block_data, pm_nonce),
                          CalculateTarget(pm_config.difficulty))
       THEN /\ is_mining' = FALSE
            /\ PowReturn(MiningResult(TRUE, pm_nonce, pm_attempts + 1, "None"))
            /\ UNCHANGED pm_nonce
       ELSE /\ pm_nonce' = pm_nonce + 1
            /\ pm_pc' = "check_stop"
            /\ UNCHANGED <<is_mining, pm_result>>
    /\ UNCHANGED <<pm_config, pm_elapsed, pm_stop_seen>>
    /\ UNCHANGED <<ledgerVars, kvVars, fnVars, poolVars, serveVars>>

\* ProofOfWorkMiner::stop() from another thread
PowStop ==
    /\ pm_pc # "none"
    /\ is_mining' = FALSE
    /\ pm_stop_seen' = (pm_stop_seen \/ pm_pc \in PowRunning)
    /\ UNCHANGED <<pm_config, pm_pc, pm_nonce, pm_attempts, pm_elapsed, pm_result,
                   pm_hashes_after>>
    /\ UNCHANGED <<ledgerVars, kvVars, fnVars, poolVars, serveVars>>

\* a second passes while mine() runs
PowTick ==
    /\ pm_pc \in PowRunning \ {"enter"}
    /\ pm_elapsed < MaxElapsed
    /\ pm_elapsed' = pm_elapsed + 1
    /\ UNCHANGED <<is_mining, pm_config, pm_pc, pm_nonce, pm_attempts, pm_result,
                   pm_stop_seen, pm_hashes_after>>
    /\ UNCHANGED <<ledgerVars, kvVars, fnVars, poolVars, serveVars>>

\* the ledger without persistent storage
Init == LedgerInit /\ ~storage /\ KVInit /\ PowInit /\ PoolInit /\ ServeInit /\ FnIdle

Next ==
    \/ Tick
    \/ \E tx \in TxCandidates : AddTransactionToPool(tx)
    \/ \E sel \in PoolSelections : CreateBlock(MinerAddress, sel)
    \/ MineBlock
    \/ AddBlock(cand, StoreSteps)
    \/ \E b \in ForgedBlocks : AddBlock(b, StoreSteps)

Spec == Init /\ [][Next]_vars

\* the ledger on a persistent store: blocks built by create_block only
InitStore == LedgerInit /\ storage /\ KVInit /\ PowInit /\ PoolInit /\ ServeInit /\ FnIdle

NextStore ==
    \/ Tick
    \/ CreateBlock(MinerAddress, <<>>)
    \/ MineBlock
    \/ \E upto \in 0..StoreSteps : AddBlock(cand, upto)
    \/ \E upto \in 1..(StoreSteps - 1) : AddBlockCrash(upto)
    \/ Restart

SpecStore == InitStore /\ [][NextStore]_vars

\* the ledger on a persistent store whose writes all succeed: blocks are
\* stored, the process is started again later
NextReopen ==
    \/ Tick
    \/ \E miner_address \in Addresses \cup {MinerAddress} : CreateBlock(miner_address, <<>>)
    \/ MineBlock
    \/ AddBlock(cand, StoreSteps)
    \/ Restart

SpecReopen == InitStore /\ [][NextReopen]_vars

\* the key/value chain
InitKV == KVInit /\ LedgerInit /\ ~storage /\ PowInit /\ PoolInit /\ ServeInit /\ FnIdle

NextKV ==
    \/ \E k \in KVKeyFiles : KVLoadKey(k)
    \/ \E op \in KVOps, t \in KVTimes : KVSingleOp(op, t)
    \/ KVBegin
    \/ \E op \in KVOps : KVAdd(op)
    \/ KVAbort
    \/ \E t \in KVTimes : KVCommit(t)
    \/ \E n \in 0..(KVMaxDifficulty + 1) : KVDifficulty(n)
    \/ KVVerify

SpecKV == InitKV /\ [][NextKV]_vars

\* the key/value chain and its saved file: single-op blocks, save, load
NextKVFile ==
    \/ \E k \in KVKeyFiles : KVLoadKey(k)
    \/ \E op \in KVOps, t \in KVTimes : KVSingleOp(op, t)
    \/ \E n \in 0..(KVMaxDifficulty + 1) : KVDifficulty(n)
    \/ KVVerify
    \/ KVSave
    \/ \E i \in 2..MaxKVBlocks, ops \in KVTamperedOps : KVTamperOps(i, ops)
    \/ KVLoad

SpecKVFile == InitKV /\ [][NextKVFile]_vars

\* Block::new(index, previous_hash, transactions, difficulty) at second t,
\* then Block::mine on it
BlockMineCall(index, difficulty, t) ==
    /\ LET b == NewBlock(index, ZeroHash,
                         <<CoinbaseTx(MinerAddress, CalculateBlockReward(index), index, t)>>,
                         difficulty, t)
       IN fn_call' = [f |-> "block_mine", arg |-> b, err |-> BlockMineResult(b).err,
                      out |-> BlockMineResult(b).block]
    /\ UNCHANGED <<ledgerVars, kvVars, powVars, poolVars, serveVars>>

(***************************************************************************)
(* Library functions applied to arguments.                                 *)
(***************************************************************************)
ByteSamples == {0, 1, 2, 3, 4, 7, 8, 15, 16, 31, 32, 63, 64, 127, 128, 255}
HashSamples == [1..HashLen -> ByteSamples]
TargetDifficulties == 0..(ByteBits * HashLen)

\* bit j (1 = most significant bit of the first byte) of a byte array
BitOf(bytes, j) ==
    (bytes[((j - 1) \div ByteBits) + 1] \div Pow2(ByteBits - 1 - ((j - 1) % ByteBits))) % 2

\* calculate_target(difficulty) and hash_meets_target(hash, that target)
CalculateTargetCall ==
    /\ fn_call.f = "target_args"
    /\ fn_call' = [f |-> "calculate_target",
                   difficulty |-> fn_call.difficulty,
                   hash |-> fn_call.hash,
                   target |-> CalculateTargetBytes(fn_call.difficulty),
                   meets |-> HashMeetsTargetBytes(fn_call.hash,
                                                  CalculateTargetBytes(fn_call.difficulty))]
    /\ UNCHANGED <<ledgerVars, kvVars, powVars, poolVars, serveVars>>

InitTarget ==
    /\ LedgerInit /\ ~storage /\ KVInit /\ PowInit /\ PoolInit /\ ServeInit
    /\ fn_call \in [f : {"target_args"}, difficulty : TargetDifficulties, hash : HashSamples]

SpecTarget == InitTarget /\ [][CalculateTargetCall]_vars

\* calculate_block_reward(height) on a chain configured with block_reward and
\* halving_interval
BlockRewardCall ==
    /\ fn_call.f = "reward_args"
    /\ \E o \in BlockRewardOutcomes(fn_call.block_reward, fn_call.halving_interval,
                                     fn_call.height) :
          fn_call' = [f |-> "calculate_block_reward",
                      block_reward |-> fn_call.block_reward,
                      halving_interval |-> fn_call.halving_interval,
                      height |-> fn_call.height,
                      panic |-> o.panic, value |-> o.value]
    /\ UNCHANGED <<ledgerVars, kvVars, powVars, poolVars, serveVars>>

InitReward ==
    /\ LedgerInit /\ ~storage /\ KVInit /\ PowInit /\ PoolInit /\ ServeInit
    /\ fn_call \in [f : {"reward_args"}, block_reward : 0..U64Max,
                     halving_interval : 1..MaxHalvingInterval, height : 0..MaxRewardHeight]

SpecReward == InitReward /\ [][BlockRewardCall]_vars

\* the difficulty controller on a growing chain: the configuration and the
\* headers of the blocks accepted so far
RetargetWindows == {2, 3}                \* config.difficulty_adjustment_interval
RetargetBlockTimes == {1, 4}             \* config.target_block_time
RetargetInitials == {1, 2}               \* config.initial_difficulty
RetargetGaps == {1, 4, 8}                \* seconds from a block to the next

RetargetConfigs ==
    [difficulty_adjustment_interval : RetargetWindows,
     target_block_time : RetargetBlockTimes,
     initial_difficulty : RetargetInitials]

\* Blockchain::new: the chain holds the genesis header
InitRetarget ==
    /\ LedgerInit /\ ~storage /\ KVInit /\ PowInit /\ PoolInit /\ ServeInit
    /\ fn_call \in
          {[f |-> "chain", cfg |-> c,
            headers |-> <<[timestamp |-> GenesisTimestamp, difficulty |-> GenesisDifficulty]>>,
            next |-> NextDifficultyWith(
                        c, <<[timestamp |-> GenesisTimestamp,
                              difficulty |-> GenesisDifficulty]>>)] :
             c \in RetargetConfigs}

\* add_block of a block stamped gap seconds after the tip: validate_block
\* accepts it only with the difficulty calculate_next_difficulty returns
RetargetAddBlock(gap) ==
    /\ fn_call.f = "chain"
    /\ Len(fn_call.headers) < MaxRetargetLen
    /\ LET hs == Append(fn_call.headers,
                        [timestamp |-> fn_call.headers[Len(fn_call.headers)].timestamp + gap,
                         difficulty |-> fn_call.next])
       IN fn_call' = [f |-> "chain", cfg |-> fn_call.cfg, headers |-> hs,
                      next |-> NextDifficultyWith(fn_call.cfg, hs)]
    /\ UNCHANGED <<ledgerVars, kvVars, powVars, poolVars, serveVars>>

SpecRetarget == InitRetarget /\ [][\E gap \in RetargetGaps : RetargetAddBlock(gap)]_vars

\* Merkle trees over lists of leaf hashes
LeafHashes == {[h |-> "leaf", n |-> n] : n \in 1..3}
LeafLists == UNION {[1..k -> LeafHashes] : k \in 1..MaxLeaves}

InitMerkle ==
    /\ LedgerInit /\ ~storage /\ KVInit /\ PowInit /\ PoolInit /\ ServeInit
    /\ fn_call \in {[f |-> "proof_args", leaves |-> l, leaf_index |-> i] :
                       l \in LeafLists, i \in 0..MaxLeaves}
    /\ fn_call.leaf_index <= Len(fn_call.leaves)

\* MerkleTree::from_hashes(leaves), generate_proof_by_index(leaf_index) and
\* verify of the proof against the root of the tree
MerkleProofCall ==
    /\ fn_call.f = "proof_args"
    /\ LET proof == GenerateProofByIndex(fn_call.leaves, fn_call.leaf_index)
       IN fn_call' = [f |-> "generate_proof_by_index",
                      leaves |-> fn_call.leaves,
                      leaf_index |-> fn_call.leaf_index,
                      err |-> proof.err,
                      verified |-> IF proof.err = "Ok"
                                   THEN ProofVerify(proof, MerkleRootOf(fn_call.leaves))
                                   ELSE FALSE]
    /\ UNCHANGED <<ledgerVars, kvVars, powVars, poolVars, serveVars>>

SpecMerkle == InitMerkle /\ [][MerkleProofCall]_vars

(***************************************************************************)
(* Transaction::validate as a library function: a non-coinbase transaction *)
(* against a caller-supplied UTXO map.                                     *)
(***************************************************************************)
ValidateAmounts == {1, Pow2(U64Bits - 1), U64Max}
ValidatePrevHashes == {[h |-> "prev", n |-> 1], [h |-> "prev", n |-> 2]}
ValidateInputLists ==
    {<<NewInput([h |-> "prev", n |-> 1], 0, TRUE)>>} \cup
    {<<NewInput([h |-> "prev", n |-> 1], 0, TRUE), NewInput(ph, 0, TRUE)>> :
        ph \in IF MaxTxInputs >= 2 THEN ValidatePrevHashes ELSE {}}
ValidateOutputLists ==
    UNION {[1..n -> {NewOutput(a, "bob") : a \in ValidateAmounts}] : n \in 1..MaxTxOutputs}
ValidateUtxoMaps ==
    UNION {[{UtxoKey(ph, 0) : ph \in K} -> {NewOutput(a, "alice") : a \in ValidateAmounts}] :
             K \in SUBSET ValidatePrevHashes}

InitValidate ==
    /\ LedgerInit /\ ~storage /\ KVInit /\ PowInit /\ PoolInit /\ ServeInit
    /\ fn_call \in {[f |-> "validate_args",
                      tx |-> NewTx(1, ins, outs, 1, 0),
                      utxo_set |-> m] :
                       ins \in ValidateInputLists, outs \in ValidateOutputLists,
                       m \in ValidateUtxoMaps}

\* tx.validate(&utxo_set)
TxValidateCall ==
    /\ fn_call.f = "validate_args"
    /\ \E r \in TxValidateOutcomes(fn_call.tx, fn_call.utxo_set) :
          fn_call' = [f |-> "validate", tx |-> fn_call.tx,
                      utxo_set |-> fn_call.utxo_set, result |-> r]
    /\ UNCHANGED <<ledgerVars, kvVars, powVars, poolVars, serveVars>>

SpecValidate == InitValidate /\ [][TxValidateCall]_vars

(***************************************************************************)
(* Transaction::hash on pairs of transactions.                             *)
(***************************************************************************)
HashInputs ==
    {[previous_tx_hash |-> [h |-> "prev", n |-> 1], output_index |-> 0,
      signature |-> sg, public_key |-> pk] : sg \in BOOLEAN, pk \in BOOLEAN}
HashInputLists == UNION {[1..n -> HashInputs] : n \in 1..MaxTxInputs}
HashTxs == {NewTx(1, ins, <<NewOutput(1, "bob")>>, 1, 0) : ins \in HashInputLists}

InitHash ==
    /\ LedgerInit /\ ~storage /\ KVInit /\ PowInit /\ PoolInit /\ ServeInit
    /\ fn_call \in {[f |-> "hash_args", tx1 |-> a, tx2 |-> b] : a \in HashTxs, b \in HashTxs}

\* tx1.hash() and tx2.hash()
TxHashCall ==
    /\ fn_call.f = "hash_args"
    /\ fn_call' = [f |-> "hash", tx1 |-> fn_call.tx1, tx2 |-> fn_call.tx2,
                   hash1 |-> TxHash(fn_call.tx1), hash2 |-> TxHash(fn_call.tx2)]
    /\ UNCHANGED <<ledgerVars, kvVars, powVars, poolVars, serveVars>>

SpecHash == InitHash /\ [][TxHashCall]_vars

(***************************************************************************)
(* Block::validate as a library function: candidate blocks on top of the   *)
(* genesis block, against the UTXO map after genesis.                      *)
(***************************************************************************)
ValidateCoinbases ==
    {CoinbaseTx(MinerAddress, a, 1, 1) : a \in {0, BlockRewardCfg}}
ValidateSpends ==
    {NewTx(1, <<NewInput(r.tx_hash, r.output_index, TRUE)>>,
           <<NewOutput(1, RecipientAddr)>>, 1, TxTimestamp) :
        r \in (DOMAIN utxo_set) \cup {BogusRef}}
ValidateTxLists ==
    {<<a>> : a \in ValidateCoinbases \cup ValidateSpends}
      \cup {<<a, b>> : a \in ValidateCoinbases, b \in ValidateCoinbases \cup ValidateSpends}
      \cup {<<a, b, c>> : a \in ValidateCoinbases, b \in ValidateSpends,
                          c \in ValidateCoinbases}

\* a candidate whose fields are set one by one; tampering is one of "none",
\* "merkle_root" (the header's root replaced) and "transactions" (the
\* transactions dropped from the block)
ValidateBlocks ==
    {[NewBlock(i, ph, txs, d, ts) EXCEPT
         !.header.version = v,
         !.header.nonce = n,
         !.header.merkle_root = IF tampering = "none" THEN @ ELSE ZeroHash,
         !.transactions = IF tampering = "transactions" THEN <<>> ELSE @] :
        i \in {1, 2}, ph \in {HeaderHash(blocks[1].header), ZeroHash},
        txs \in ValidateTxLists, d \in {0, 1, PowBits},
        ts \in {0, 1, now + MaxFutureDrift + 1},
        v \in {0, 1}, n \in {0, 1}, tampering \in {"none", "merkle_root", "transactions"}}

InitBlockValidate ==
    /\ LedgerInit /\ ~storage /\ KVInit /\ PowInit /\ PoolInit /\ ServeInit
    /\ fn_call \in {[f |-> "block_validate_args", block |-> b] : b \in ValidateBlocks}

\* block.validate(Some(&genesis), &utxo_map)
BlockValidateCall ==
    /\ fn_call.f = "block_validate_args"
    /\ fn_call' = [f |-> "block_validate", block |-> fn_call.block,
                   result |-> BlockValidate(fn_call.block, blocks[1], UtxoMap(utxo_set), now)]
    /\ UNCHANGED <<ledgerVars, kvVars, powVars, poolVars, serveVars>>

SpecBlockValidate == InitBlockValidate /\ [][BlockValidateCall]_vars

(***************************************************************************)
(* TransactionPool driven by add_transaction and remove_transaction.       *)
(***************************************************************************)
\* a transaction as a client builds it: Transaction::new and a fee it sets
PoolTx(uuid, base_fee, priority_multiplier) ==
    [id |-> <<"uuid", uuid>>,
     inputs |-> <<NewInput(ZeroHash, 0, FALSE)>>,
     outputs |-> <<NewOutput(1, "bob")>>,
     base_fee |-> base_fee,
     priority_multiplier |-> priority_multiplier,
     timestamp |-> 0]

PoolTxSamples ==
    {PoolTx(1, 1, F64(1)), PoolTx(2, 2, F64(1)), PoolTx(3, 1, F64(2)),
     PoolTx(4, 3, F64(1)), PoolTx(5, 1, NaN)}

\* TransactionPool::new(max_size)
InitPool ==
    /\ LedgerInit /\ ~storage /\ KVInit /\ PowInit /\ FnIdle /\ ServeInit
    /\ pool_transactions = EmptyMap
    /\ pool_priority_queue = EmptyMap
    /\ pool_max_size \in 1..MaxPoolSize
    /\ pool_last = [op |-> "new"]

PoolState == [transactions |-> pool_transactions, priority_queue |-> pool_priority_queue]

\* pool.add_transaction(transaction)
TxPoolAdd(transaction) ==
    /\ \E order \in Arrangements(DOMAIN pool_priority_queue,
                                  Cardinality(DOMAIN pool_priority_queue)) :
          LET r == PoolAddTransaction(PoolState, pool_max_size, transaction, order)
          IN /\ pool_transactions' = r.pool.transactions
             /\ pool_priority_queue' = r.pool.priority_queue
             /\ pool_last' = [op |-> "add_transaction", err |-> r.err, full |-> r.full,
                              evicted |-> r.evicted, before |-> pool_priority_queue]
    /\ UNCHANGED <<pool_max_size, ledgerVars, kvVars, powVars, fnVars, serveVars>>

\* pool.remove_transaction(&tx_hash)
TxPoolRemove(tx_hash) ==
    /\ LET pool == PoolRemoveTransaction(PoolState, tx_hash)
       IN /\ pool_transactions' = pool.transactions
          /\ pool_priority_queue' = pool.priority_queue
    /\ pool_last' = [op |-> "remove_transaction"]
    /\ UNCHANGED <<pool_max_size, ledgerVars, kvVars, powVars, fnVars, serveVars>>

NextPool ==
    \/ \E tx \in PoolTxSamples : TxPoolAdd(tx)
    \/ \E tx \in PoolTxSamples : TxPoolRemove(TxHash(tx))

SpecPool == InitPool /\ [][NextPool]_vars

(***************************************************************************)
(* The KV chain behind its Mutex: the shell loop and the HTTP handlers of  *)
(* "serve" as threads.  A write is three kinds of step: the call up to     *)
(* chain.lock(), the lock with the start of append_signed, and each pass   *)
(* of the proof-of-work loop.                                              *)
(***************************************************************************)
\* a lock() that never waits
LockIgnored(lock, t) == TRUE

\* Mutex::lock returns once nobody holds the mutex
MutexAvailable(lock, t) == lock = "free"

KVGet(c, key) ==
    IF key \in DOMAIN KVMaterialize(c)
    THEN [found |-> TRUE, value |-> KVMaterialize(c)[key]]
    ELSE [found |-> FALSE, value |-> ""]

\* blocks being mined or about to be
PendingWrites == Cardinality({t \in Threads : rq[t].pc \in {"lock", "mining"}})

\* "serve <port>": the router is spawned and requests can arrive
ServeStart ==
    /\ rq["shell"].pc = "idle"
    /\ \E t \in Threads : rq[t].pc = "unserved"
    /\ rq' = [t \in Threads |-> IF rq[t].pc = "unserved" THEN [pc |-> "idle"] ELSE rq[t]]
    /\ kv_res' = [op |-> "serve", err |-> "Ok"]
    /\ UNCHANGED <<chain_lock, kv_blocks, kv_difficulty, kv_batch_active, kv_batch_ops,
                   kv_keypair, kv_file, kv_tampered>>
    /\ UNCHANGED <<ledgerVars, powVars, fnVars, poolVars>>

\* "loadkey <file>" at the shell
ServeLoadKey(k) == rq["shell"].pc = "idle" /\ KVLoadKey(k)

\* http_set, http_del, http_commit and the shell's set, del, commit up to
\* chain.lock(): the key is cloned out of its own mutex
ServeWriteCall(t, kind, ops) ==
    /\ rq[t].pc = "idle"
    /\ Len(kv_blocks) + PendingWrites <= MaxKVBlocks
    /\ IF kv_keypair = NoHash
       THEN /\ kv_res' = [op |-> kind, err |-> "no signing key loaded"]
            /\ UNCHANGED rq
       ELSE /\ rq' = [rq EXCEPT ![t] = [pc |-> "lock", kind |-> kind, ops |-> ops,
                                        kp |-> kv_keypair]]
            /\ UNCHANGED kv_res
    /\ UNCHANGED <<chain_lock, kv_blocks, kv_difficulty, kv_batch_active, kv_batch_ops,
                   kv_keypair, kv_file, kv_tampered>>
    /\ UNCHANGED <<ledgerVars, powVars, fnVars, poolVars>>

\* chain.lock() of a write and what runs before the search: commit_batch
\* takes the batch, append_signed reads next_index, last_hash and difficulty,
\* Block::new reads the clock (second ts)
ServeWriteLock(t, ts) ==
    /\ rq[t].pc = "lock"
    /\ MutexAvailable(chain_lock, t)
    /\ IF rq[t].kind = "commit" /\ ~kv_batch_active
       THEN /\ kv_res' = [op |-> "commit", err |-> "no active batch"]
            /\ rq' = [rq EXCEPT ![t] = [pc |-> "idle"]]
            /\ UNCHANGED <<chain_lock, kv_batch_active, kv_batch_ops>>
       ELSE /\ chain_lock' = t
            /\ rq' = [rq EXCEPT ![t] =
                        [pc |-> "mining", kind |-> rq[t].kind, kp |-> rq[t].kp,
                         ops |-> IF rq[t].kind = "commit" THEN kv_batch_ops ELSE rq[t].ops,
                         index |-> KVNextIndex(KVChain),
                         prev_hash |-> KVLastHash(KVChain),
                         difficulty |-> kv_difficulty,
                         timestamp |-> ts,
                         nonce |-> 0]]
            /\ kv_batch_active' = IF rq[t].kind = "commit" THEN FALSE ELSE kv_batch_active
            /\ kv_batch_ops' = IF rq[t].kind = "commit" THEN <<>> ELSE kv_batch_ops
            /\ UNCHANGED kv_res
    /\ UNCHANGED <<kv_blocks, kv_difficulty, kv_keypair, kv_file, kv_tampered>>
    /\ UNCHANGED <<ledgerVars, powVars, fnVars, poolVars>>

\* one pass of the loop of mine_with_progress; when the candidate has its
\* zeros, the rest of Block::new, the push of append_signed and the drop of
\* the MutexGuard
ServeMineStep(t) ==
    /\ rq[t].pc = "mining"
    /\ LET r == rq[t]
           mr == KVMerkleRoot(r.ops)
           candidate == KVComputeHash(r.index, r.timestamp, mr, r.prev_hash, r.nonce)
       IN IF KVStartsWithZeros(candidate, r.difficulty)
          THEN /\ kv_blocks' = Append(kv_blocks,
                      [index |-> r.index, timestamp |-> r.timestamp, ops |-> r.ops,
                       prev_hash |-> r.prev_hash, merkle_root |-> mr,
                       nonce |-> r.nonce, hash |-> candidate,
                       signature |-> KVSign(r.kp, candidate),
                       signer_pubkey |-> KVVerifyingKey(r.kp)])
               /\ chain_lock' = "free"
               /\ rq' = [rq EXCEPT ![t] = [pc |-> "idle"]]
               /\ kv_res' = [op |-> r.kind, err |-> "Ok"]
          ELSE /\ rq' = [rq EXCEPT ![t].nonce = @ + 1]
               /\ UNCHANGED <<kv_blocks, chain_lock, kv_res>>
    /\ UNCHANGED <<kv_difficulty, kv_batch_active, kv_batch_ops, kv_keypair, kv_file,
                   kv_tampered>>
    /\ UNCHANGED <<ledgerVars, powVars, fnVars, poolVars>>

\* http_get and the shell's get: lock, materialize, look the key up, unlock
ServeRead(t, key) ==
    /\ rq[t].pc = "idle"
    /\ MutexAvailable(chain_lock, t)
    /\ kv_res' = [op |-> "get", key |-> key, value |-> KVGet(KVChain, key)]
    /\ UNCHANGED <<chain_lock, rq, kv_blocks, kv_difficulty, kv_batch_active,
                   kv_batch_ops, kv_keypair, kv_file, kv_tampered>>
    /\ UNCHANGED <<ledgerVars, powVars, fnVars, poolVars>>

\* begin, addput / adddel and abort, from the shell or over HTTP: the lock is
\* held for the one call
ServeBatch(t, cmd, op) ==
    /\ rq[t].pc = "idle"
    /\ MutexAvailable(chain_lock, t)
    /\ cmd = "add" => Len(kv_batch_ops) < MaxBatchOps
    /\ LET r == CASE cmd = "begin" -> KVBeginBatch(KVChain)
                  [] cmd = "add" -> KVAddOp(KVChain, op)
                  [] cmd = "abort" -> [err |-> "Ok", c |-> KVAbortBatch(KVChain)]
       IN /\ KVSetChain(r.c)
          /\ kv_res' = [op |-> cmd, arg |-> op, err |-> r.err]
    /\ UNCHANGED <<chain_lock, rq, kv_keypair, kv_file, kv_tampered>>
    /\ UNCHANGED <<ledgerVars, powVars, fnVars, poolVars>>

InitServe == Init

NextServe ==
    \/ ServeStart
    \/ \E k \in KVKeyFiles : ServeLoadKey(k)
    \/ \E t \in Threads, op \in KVOps : ServeWriteCall(t, "set", <<op>>)
    \/ \E t \in Threads : ServeWriteCall(t, "commit", <<>>)
    \/ \E t \in Threads, ts \in KVTimes : ServeWriteLock(t, ts)
    \/ \E t \in Threads : ServeMineStep(t)
    \/ \E t \in Threads, key \in KVKeys : ServeRead(t, key)
    \/ \E t \in Threads, cmd \in {"begin", "add", "abort"}, op \in KVOps :
          ServeBatch(t, cmd, op)

SpecServe == InitServe /\ [][NextServe]_vars

(***************************************************************************)
(* The KV chain read back at the shell: set, del and get over every key a  *)
(* user can type, the key of the genesis op among them.                    *)
(***************************************************************************)
KVReadKeys == KVKeys \cup {"__genesis__"}
KVReadOps ==
    {KVPut(k, v) : k \in KVReadKeys, v \in KVValues} \cup {KVDelOp(k) : k \in KVReadKeys}

NextKVRead ==
    \/ \E k \in KVKeyFiles : KVLoadKey(k)
    \/ \E op \in KVReadOps, t \in KVTimes : KVSingleOp(op, t)
    \/ KVBegin
    \/ \E op \in KVReadOps : KVAdd(op)
    \/ \E t \in KVTimes : KVCommit(t)
    \/ \E key \in KVReadKeys : ServeRead("shell", key)

SpecKVRead == InitKV /\ [][NextKVRead]_vars

\* the proof-of-work miner and the threads that stop it
InitPow == LedgerInit /\ ~storage /\ KVInit /\ PowInit /\ PoolInit /\ ServeInit /\ FnIdle

NextPow ==
    \/ \E config \in PowConfigs : PowNew(config)
    \/ PowMineCall
    \/ PowMineEnter
    \/ PowCheckStop
    \/ PowCheckTimeout
    \/ PowCheckMax
    \/ PowTryNonce
    \/ PowStop
    \/ PowTick
    \/ \E index \in 0..MaxBlocks, difficulty \in PowDifficulties, t \in 0..MaxTime :
          BlockMineCall(index, difficulty, t)

SpecPow == InitPow /\ [][NextPow]_vars

(***************************************************************************)
(* The claims of the specification, stated over the model.                 *)
(***************************************************************************)

\* C1: after Blockchain::new and any sequence of successful
\* add_transaction_to_pool, create_block, Block::mine and add_block calls
\* (the empty sequence included), verify_chain() returns Ok.
C1_VerifyChainOk == up => VerifyChain(blocks, utxo_set, now) = "Ok"

\* C2: whenever add_block returns an error, the blocks vector, the block
\* index, the transaction pool and the UTXO set are as they were before the
\* call.
C2_FailedAddBlockChangesNothing ==
    [][(res'.op = "add_block" /\ res'.err # "Ok")
          => UNCHANGED <<blocks, utxo_set, transaction_pool, block_index>>]_vars

\* C3: applying a block to the UTXO set is all-or-nothing: when the lookup of
\* an input fails while the block is applied, the UTXO set is the one from
\* before the application.
C3_ApplyBlockAllOrNothing ==
    [][(res'.op = "add_block" /\ res'.err = "UtxoNotFound") => utxo_set' = utxo_set]_vars

\* C4: blocks are appended only at the tip: whenever the chain changes, the
\* old chain is a prefix of the new one and the one block added has the old
\* length as its index and the hash of the old last block as previous_hash.
C4_AppendOnlyAtTip ==
    [][blocks' # blocks =>
          /\ Len(blocks') = Len(blocks) + 1
          /\ SubSeq(blocks', 1, Len(blocks)) = blocks
          /\ blocks'[Len(blocks')].index = Len(blocks)
          /\ blocks'[Len(blocks')].header.previous_hash = BlockHash(blocks[Len(blocks)])]_vars

\* C5: no two transactions of the pool have an input referencing the same
\* (previous_tx_hash, output_index).
C5_NoPoolDoubleSpend ==
    \A t1 \in PoolTxs, t2 \in PoolTxs :
        t1 # t2 =>
            \A i \in DOMAIN t1.inputs, j \in DOMAIN t2.inputs :
                ~(/\ t1.inputs[i].previous_tx_hash = t2.inputs[j].previous_tx_hash
                  /\ t1.inputs[i].output_index = t2.inputs[j].output_index)

\* C6: create_block includes at most max_transactions_per_block - 1 pool
\* transactions, and no pool transaction left out has a strictly higher
\* priority than one that was included.
C6_HighestPriorityIncluded ==
    (res.op = "create_block" /\ cand # NoHash) =>
        LET inc == {cand.transactions[i] : i \in 2..Len(cand.transactions)}
        IN /\ Len(cand.transactions) - 1 <= MaxTransactionsPerBlock - 1
           /\ \A t \in PoolTxs \ inc, u \in inc : Priority(t) <= Priority(u)

\* the sum of the fees (input total minus output total) of a list of transactions
RECURSIVE IncludedFees(_, _)
IncludedFees(txs, utxo_map) ==
    IF txs = <<>> THEN 0
    ELSE CalculateFee(txs[1], utxo_map) + IncludedFees(Tail(txs), utxo_map)

\* C7: the coinbase of the block built by create_block at height h pays
\* block_reward(h) plus the sum of the fees of the transactions included.
C7_CoinbasePaysRewardPlusFees ==
    (res.op = "create_block" /\ cand # NoHash) =>
        cand.transactions[1].outputs[1].amount =
            CalculateBlockReward(cand.index)
              + IncludedFees(Tail(cand.transactions), UtxoMap(utxo_set))

\* C8: in the key/value chain, once the ops of a stored non-genesis block
\* have been changed (its other fields left as stored), verify_all on that
\* chain returns an error: loading it is refused.
C8_TamperedOpsDetected ==
    [][(kv_tampered /\ kv_res'.op = "load") => kv_res'.err # "Ok"]_vars

\* C9: with_storage makes the stored blocks part of the chain only if each of
\* them passes block validation in chain order, against its predecessor and
\* the UTXO set of the blocks before it.
C9_LoadValidatesStoredBlocks ==
    (res.op = "with_storage" /\ res.err = "Ok") =>
        \A i \in 2..Len(blocks) :
            BlockValidate(blocks[i], blocks[i - 1],
                          UtxoMap(RebuildUtxoSet(SubSeq(blocks, 1, i - 1)).utxo), now) = "Ok"

\* C10: when the process stopped in store_block after the block record was
\* written and before the journal entry was committed, reopening the storage
\* and loading yields the chain from before that store_block, and no
\* uncommitted journal entry is left.
C10_CrashRecovery ==
    (res.op = "with_storage" /\ crashed.step \in 2..(StoreSteps - 1)) =>
        /\ res.err = "Ok"
        /\ Len(blocks) = Len(crashed.pre)
        /\ \A i \in 2..Len(blocks) :
              SerializeBlock(blocks[i]) = SerializeBlock(crashed.pre[i])
        /\ \A j \in DOMAIN disk.journal : disk.journal[j].committed

\* C11: after every successful add_block on a chain with storage attached,
\* the persistent utxos tree holds exactly the entries of the in-memory UTXO
\* set (same keys, same outputs).
C11_PersistentUtxosInSync ==
    (storage /\ res.op = "add_block" /\ res.err = "Ok") =>
        /\ DOMAIN disk.utxos = DOMAIN UtxoMap(utxo_set)
        /\ \A k \in DOMAIN disk.utxos : disk.utxos[k].output = UtxoMap(utxo_set)[k]

\* C12: once stop() has been called while a mine() call is running or being
\* started, that call computes at most one further hash and returns the
\* unsuccessful result "Mining stopped by user".
C12_StopPreemptsMine ==
    pm_stop_seen =>
        /\ pm_hashes_after <= 1
        /\ pm_pc = "done" =>
              (~pm_result.success /\ pm_result.stop_reason = "Mining stopped by user")

\* C13: a mine() call that was cancelled, timed out or used up its attempts
\* returns a normal unsuccessful result: neither ProofOfWorkMiner::mine nor
\* Block::mine returns Err.
C13_MiningNeverErr ==
    /\ (pm_pc = "done" /\ ~pm_result.success) => pm_result.err = "Ok"
    /\ fn_call.f = "block_mine" => fn_call.err = "Ok"

\* C14: for every block of the chain with index >= 1, the block hash (the
\* hash of its header) meets the target of the header's difficulty.
C14_BlockHashMeetsTarget ==
    \A i \in 1..Len(blocks) :
        blocks[i].index >= 1 =>
            HashMeetsTarget(HeaderDigest(blocks[i].header),
                            CalculateTarget(blocks[i].header.difficulty))

C16_RewardHalvesWithoutFault ==
    fn_call.f = "calculate_block_reward" =>
        /\ ~fn_call.panic
        /\ fn_call.value =
              Max(fn_call.block_reward \div Pow2(fn_call.height \div fn_call.halving_interval), 1)

\* C17: at a retarget height calculate_next_difficulty returns the last
\* block's difficulty times (target time of the window / actual time of the
\* window), the factor clamped to [1/4, 4] and the result at least 1; at every
\* other height it returns the difficulty of the last block.
C17_RetargetRule ==
    fn_call.f = "chain" =>
        LET hs == fn_call.headers
            n == fn_call.cfg.difficulty_adjustment_interval
            cur == hs[Len(hs)].difficulty
            taken == hs[Len(hs)].timestamp - hs[Len(hs) - n + 1].timestamp
            expected == n * fn_call.cfg.target_block_time
        IN IF Len(hs) % n = 0
           THEN fn_call.next =
                   Max(IF 4 * taken <= expected THEN 4 * cur
                       ELSE IF taken >= 4 * expected THEN RoundDiv(cur, 4)
                       ELSE RoundDiv(cur * expected, taken), 1)
           ELSE fn_call.next = cur

\* C18: when each block of the last retarget window came exactly
\* target_block_time after its predecessor, the difficulty computed at the
\* retarget height is within 1 of the last block's difficulty.
C18_OnTargetKeepsDifficulty ==
    (/\ fn_call.f = "chain"
     /\ Len(fn_call.headers) % fn_call.cfg.difficulty_adjustment_interval = 0
     /\ \A i \in (Len(fn_call.headers) - fn_call.cfg.difficulty_adjustment_interval + 1)
                  ..Len(fn_call.headers) :
           i > 1 => fn_call.headers[i].timestamp - fn_call.headers[i - 1].timestamp
                       = fn_call.cfg.target_block_time)
    => /\ fn_call.next <= fn_call.headers[Len(fn_call.headers)].difficulty + 1
       /\ fn_call.next + 1 >= fn_call.headers[Len(fn_call.headers)].difficulty

\* C19: for every non-empty list of leaf hashes (odd lengths and a single
\* leaf included) and every leaf index below the leaf count, the proof from
\* generate_proof_by_index verifies against the root of the tree.
C19_ProofVerifies ==
    (fn_call.f = "generate_proof_by_index" /\ fn_call.leaf_index < Len(fn_call.leaves)) =>
        (fn_call.err = "Ok" /\ fn_call.verified)

\* the proof of the last leaf of a tree with an odd number of distinct leaves
C19_Witness ==
    /\ fn_call.f = "generate_proof_by_index"
    /\ Len(fn_call.leaves) = 3
    /\ fn_call.leaf_index = 2
    /\ fn_call.leaves[1] # fn_call.leaves[2]
    /\ fn_call.leaves[2] # fn_call.leaves[3]
    /\ fn_call.verified

\* block j of the chain spends an output created by the earlier block i
SpendsEarlierOutput(bs, i, j) ==
    \E a \in DOMAIN bs[j].transactions, b \in DOMAIN bs[i].transactions :
        \E k \in DOMAIN bs[j].transactions[a].inputs :
            /\ ~InputIsCoinbase(bs[j].transactions[a].inputs[k])
            /\ bs[j].transactions[a].inputs[k].previous_tx_hash = TxHash(bs[i].transactions[b])
            /\ bs[j].transactions[a].inputs[k].output_index + 1
                  \in DOMAIN bs[i].transactions[b].outputs

\* C20: verify_chain validates each block against the UTXO set as it stood
\* before that block was applied, so a chain in which a later block spends an
\* output created by an earlier block verifies successfully.
C20_VerifyChainReplaysUtxo ==
    (up /\ res.err = "Ok"
        /\ \E i \in DOMAIN blocks, j \in DOMAIN blocks : i < j /\ SpendsEarlierOutput(blocks, i, j))
    => VerifyChain(blocks, utxo_set, now) = "Ok"

\* C21: Transaction::validate accepts a non-coinbase transaction only if the
\* unbounded sum of its output amounts is at most the unbounded sum of the
\* amounts its inputs reference, and neither sum exceeds the 64-bit range:
\* no transaction is accepted through wrap-around.
C21_NoWrapAcceptance ==
    (fn_call.f = "validate" /\ fn_call.result = "Ok" /\ ~TxIsCoinbase(fn_call.tx)) =>
        /\ SumAmounts(fn_call.tx.outputs) <= SumInputs(fn_call.tx.inputs, fn_call.utxo_set)
        /\ SumAmounts(fn_call.tx.outputs) <= U64Max
        /\ SumInputs(fn_call.tx.inputs, fn_call.utxo_set) <= U64Max

\* C22: after add_block succeeds, none of the transactions of the appended
\* block remains in the transaction pool.
C22_BlockTxsLeavePool ==
    [][(res'.op = "add_block" /\ res'.err = "Ok" /\ blocks' # blocks) =>
          \A i \in DOMAIN blocks'[Len(blocks')].transactions :
             TxHash(blocks'[Len(blocks')].transactions[i]) \notin DOMAIN transaction_pool']_vars

\* a block that took one of two pooled transactions has been appended
C22_Witness ==
    /\ res = [op |-> "add_block", err |-> "Ok"]
    /\ Len(blocks[Len(blocks)].transactions) >= 2
    /\ transaction_pool # EmptyMap

\* C23: a TransactionPool with max_size >= 1 never holds more than max_size
\* transactions, add_transaction never fails, and when add_transaction finds
\* the pool full the entry it evicts is one of minimal priority score: no
\* entry pooled at that moment has a smaller score.
C23_PoolBoundedEvictsLowest ==
    /\ Cardinality(DOMAIN pool_transactions) <= pool_max_size
    /\ DOMAIN pool_priority_queue = DOMAIN pool_transactions
    /\ pool_last.op = "add_transaction" =>
          /\ pool_last.err = "Ok"
          /\ pool_last.full =>
                /\ pool_last.evicted \in DOMAIN pool_last.before
                /\ \A h \in DOMAIN pool_last.before :
                      ~(/\ ~pool_last.before[h].nan
                        /\ ~pool_last.before[pool_last.evicted].nan
                        /\ pool_last.before[h].v < pool_last.before[pool_last.evicted].v)

\* an admission into a full pool of two evicted the lower-scored of two
\* entries with different scores
C23_Witness ==
    /\ pool_last.op = "add_transaction" /\ pool_last.full
    /\ pool_last.evicted \in DOMAIN pool_last.before
    /\ \E h \in DOMAIN pool_last.before :
          /\ ~pool_last.before[h].nan /\ ~pool_last.before[pool_last.evicted].nan
          /\ pool_last.before[h].v > pool_last.before[pool_last.evicted].v

\* C24: in the KV chain the batch holds exactly the ops added by
\* addput/adddel since the matching begin, in the order they were added, and
\* commit_batch on an active batch succeeds, appends exactly one block whose
\* ops are that batch, and leaves the batch inactive and empty.
C24_CommitAppendsBatch ==
    [][/\ (kv_res'.op = "begin" /\ kv_res'.err = "Ok") =>
             (kv_batch_active' /\ kv_batch_ops' = <<>>)
       /\ (kv_res'.op = "add" /\ kv_res'.err = "Ok") =>
             (kv_batch_active' /\ kv_batch_ops' = Append(kv_batch_ops, kv_res'.arg))
       /\ (kv_res'.op \notin {"begin", "add", "abort", "commit"} \/ kv_res'.err # "Ok") =>
             UNCHANGED <<kv_batch_active, kv_batch_ops>>
       /\ (kv_res'.op = "commit" /\ kv_batch_active /\ kv_keypair # NoHash) =>
             /\ kv_res'.err = "Ok"
             /\ Len(kv_blocks') = Len(kv_blocks) + 1
             /\ SubSeq(kv_blocks', 1, Len(kv_blocks)) = kv_blocks
             /\ kv_blocks'[Len(kv_blocks')].ops = kv_batch_ops
             /\ ~kv_batch_active'
             /\ kv_batch_ops' = <<>>]_vars

\* a batch of two different ops has been committed as one block
C24_Witness ==
    /\ kv_res = [op |-> "commit", err |-> "Ok"]
    /\ Len(kv_blocks[Len(kv_blocks)].ops) = 2
    /\ kv_blocks[Len(kv_blocks)].ops[1] # kv_blocks[Len(kv_blocks)].ops[2]
    /\ ~kv_batch_active /\ kv_batch_ops = <<>>

\* C25: the chain lock is never held across mining: while a set, del or
\* commit request is running its proof-of-work search, a read request of
\* another thread can take the chain lock and complete.
C25_ReadsProceedDuringMining ==
    \A t \in Threads : rq[t].pc = "mining" =>
        \A u \in Threads \ {t} : rq[u].pc = "idle" =>
            \A key \in KVKeys : ENABLED ServeRead(u, key)

\* C26: under any interleaving of concurrent set, del and commit requests and
\* shell commands, appends to the KV chain are totally ordered: every step
\* that changes the chain appends one block to the chain as it was, with
\* index one above its predecessor's and prev_hash its predecessor's hash,
\* and no two blocks of the chain are built on the same predecessor.
C26_AppendsTotallyOrdered ==
    /\ [](\A i, j \in 2..Len(kv_blocks) :
            i # j => kv_blocks[i].prev_hash # kv_blocks[j].prev_hash)
    /\ [][kv_blocks' # kv_blocks =>
            /\ Len(kv_blocks') = Len(kv_blocks) + 1
            /\ SubSeq(kv_blocks', 1, Len(kv_blocks)) = kv_blocks
            /\ kv_blocks'[Len(kv_blocks')].index = kv_blocks[Len(kv_blocks)].index + 1
            /\ kv_blocks'[Len(kv_blocks')].prev_hash = kv_blocks[Len(kv_blocks)].hash]_vars

\* two blocks have been appended and, at this moment, one thread is inside
\* its search while another waits for the chain lock with a write
C26_Witness ==
    /\ Len(kv_blocks) >= 2
    /\ \E t, u \in Threads : rq[t].pc = "mining" /\ rq[u].pc = "lock"

\* two transactions that differ at most in the signature fields of their inputs
DifferOnlyInSignatures(a, b) ==
    /\ Len(a.inputs) = Len(b.inputs)
    /\ [a EXCEPT !.inputs = <<>>] = [b EXCEPT !.inputs = <<>>]
    /\ \A i \in DOMAIN a.inputs :
          /\ a.inputs[i].previous_tx_hash = b.inputs[i].previous_tx_hash
          /\ a.inputs[i].output_index = b.inputs[i].output_index
          /\ a.inputs[i].public_key = b.inputs[i].public_key

\* C27: Transaction::hash does not depend on signatures: two transactions
\* that differ only in the signature fields of their inputs have the same hash.
C27_HashIgnoresSignatures ==
    (fn_call.f = "hash" /\ DifferOnlyInSignatures(fn_call.tx1, fn_call.tx2)) =>
        fn_call.hash1 = fn_call.hash2

\* two different transactions that differ only in signatures have been hashed
C27_Witness ==
    /\ fn_call.f = "hash"
    /\ fn_call.tx1 # fn_call.tx2
    /\ DifferOnlyInSignatures(fn_call.tx1, fn_call.tx2)

\* the ops appended after genesis, in chain order, from block i on
RECURSIVE AppendedOps(_, _)
AppendedOps(bs, i) ==
    IF i > Len(bs) THEN <<>> ELSE bs[i].ops \o AppendedOps(bs, i + 1)

\* the last appended op on key K (0: none)
LastOpOn(ops, K) ==
    IF \E i \in DOMAIN ops : ops[i].key = K
    THEN CHOOSE i \in DOMAIN ops :
           ops[i].key = K /\ \A j \in DOMAIN ops : ops[j].key = K => j <= i
    ELSE 0

\* C28: reads of the KV chain reflect the appended operations for every key
\* K and value V: when the last appended op on K is set K V, get K returns V;
\* when it is del K, get K returns not found; a chain holding only the
\* genesis block has empty state.
C28_ReadsReflectOps ==
    /\ Len(kv_blocks) = 1 => KVMaterialize(KVChain) = EmptyMap
    /\ kv_res.op = "get" =>
          LET ops == AppendedOps(kv_blocks, 2)
              last == LastOpOn(ops, kv_res.key)
          IN last # 0 =>
               IF ops[last].op = "Put"
               THEN kv_res.value = [found |-> TRUE, value |-> ops[last].value]
               ELSE kv_res.value = [found |-> FALSE, value |-> ""]

\* the rules of block validation, each on its own: "Ok" or the rule's error
RuleHeader(b, t) == HeaderValidate(b.header, t)
RuleIndex(b, prev) == IF b.index # prev.index + 1 THEN "InvalidBlockIndex" ELSE "Ok"
RulePreviousHash(b, prev) ==
    IF b.header.previous_hash # BlockHash(prev) THEN "InvalidPreviousHash" ELSE "Ok"
RuleTimestamp(b, prev) ==
    IF b.header.timestamp <= prev.header.timestamp THEN "InvalidTimestamp" ELSE "Ok"
RuleNonEmpty(b) == IF b.transactions = <<>> THEN "EmptyBlock" ELSE "Ok"
RuleCoinbasePlacement(b) ==
    IF b.transactions = <<>> THEN "Ok"
    ELSE IF ~TxIsCoinbase(b.transactions[1]) THEN "MissingCoinbase"
    ELSE IF \E i \in 2..Len(b.transactions) : TxIsCoinbase(b.transactions[i])
         THEN "MultipleCoinbase"
    ELSE "Ok"
RuleTransactions(b, utxo_map) ==
    FirstError([i \in DOMAIN b.transactions |-> TxValidate(b.transactions[i], utxo_map)])
RuleMerkleRoot(b) ==
    IF b.transactions # <<>> /\ TxMerkleRoot(b.transactions) # b.header.merkle_root
    THEN "InvalidMerkleRoot" ELSE "Ok"
RuleProofOfWork(b) ==
    IF ~MeetsDifficultyTarget(b.header) THEN "InvalidProofOfWork" ELSE "Ok"

\* the error of the earliest violated rule in the fixed order
FirstViolatedRule(b, prev, utxo_map, t) ==
    FirstError(<<RuleHeader(b, t), RuleIndex(b, prev), RulePreviousHash(b, prev),
                 RuleTimestamp(b, prev), RuleNonEmpty(b), RuleCoinbasePlacement(b),
                 RuleTransactions(b, utxo_map), RuleMerkleRoot(b), RuleProofOfWork(b)>>)

\* C29: Block::validate reports the first failing rule in the fixed order
\* header well-formed, index continuity, previous hash, timestamp after the
\* previous block, non-empty transactions, coinbase placement, per-transaction
\* validity, merkle root, proof of work.
C29_FirstFailingRuleWins ==
    fn_call.f = "block_validate" =>
        LET first == FirstViolatedRule(fn_call.block, blocks[1], UtxoMap(utxo_set), now)
        IN first # "Ok" => fn_call.result = first

(***************************************************************************)
(* PersistentStorage used directly, as the storage tests use it.           *)
(***************************************************************************)
JournalBlocks ==
    {NewBlock(i, ZeroHash, <<CoinbaseTx(GenesisAddress, 1, i, 1)>>, 1, 1) : i \in 0..1}
JournalUtxoIds == {UtxoId(ZeroHash, 0)}
JournalUtxoEntry == [output |-> NewOutput(1, GenesisAddress), block_height |-> 0]

InitJournal == InitStore

\* what a call on the storage leaves alone
StorageFrame ==
    /\ UNCHANGED <<blocks, utxo_set, transaction_pool, block_index, storage,
                   next_journal_id, now, cand, up, crashed>>
    /\ UNCHANGED <<kvVars, powVars, fnVars, poolVars, serveVars>>

\* PersistentStorage::store_block
StorageStoreBlock(b) ==
    /\ up
    /\ disk' = StoreBlock(disk, next_journal_id, b, StoreSteps)
    /\ res' = [op |-> "store_block", err |-> "Ok"]
    /\ StorageFrame

\* PersistentStorage::store_utxo
StorageStoreUtxo(utxo_id) ==
    /\ up
    /\ disk' = StoreUtxo(disk, next_journal_id, utxo_id, JournalUtxoEntry)
    /\ res' = [op |-> "store_utxo", err |-> "Ok"]
    /\ StorageFrame

\* PersistentStorage::remove_utxo
StorageRemoveUtxo(utxo_id) ==
    /\ up
    /\ disk' = RemoveUtxo(disk, next_journal_id, utxo_id, 1)
    /\ res' = [op |-> "remove_utxo",
               err |-> IF utxo_id \in DOMAIN disk.utxos THEN "Ok" ELSE "NotFound"]
    /\ StorageFrame

\* PersistentStorage::compact
StorageCompact ==
    /\ up
    /\ disk' = Compact(disk)
    /\ res' = [op |-> "compact", err |-> "Ok"]
    /\ StorageFrame

\* the storage is dropped and PersistentStorage::new opens the same path:
\* next_journal_id = journal.len()
StorageReopen ==
    /\ up
    /\ Cardinality(DOMAIN disk.journal) <= MaxJournal
    /\ next_journal_id' = Cardinality(DOMAIN disk.journal)
    /\ res' = [op |-> "reopen", err |-> "Ok"]
    /\ UNCHANGED <<blocks, utxo_set, transaction_pool, block_index, storage,
                   disk, now, cand, up, crashed>>
    /\ UNCHANGED <<kvVars, powVars, fnVars, poolVars, serveVars>>

\* the calls that create a journal entry
CreatesJournalEntry ==
    \/ \E b \in JournalBlocks : StorageStoreBlock(b)
    \/ \E id \in JournalUtxoIds : StorageStoreUtxo(id)
    \/ \E id \in JournalUtxoIds : StorageRemoveUtxo(id) /\ res'.err = "Ok"

NextJournal ==
    \/ Tick
    \/ \E b \in JournalBlocks : StorageStoreBlock(b)
    \/ \E id \in JournalUtxoIds : StorageStoreUtxo(id)
    \/ \E id \in JournalUtxoIds : StorageRemoveUtxo(id)
    \/ StorageCompact
    \/ StorageReopen

SpecJournal == InitJournal /\ [][NextJournal]_vars

\* C30: a call that creates a journal entry (store_block, store_utxo,
\* remove_utxo) uses an id that no entry of the journal bears at that moment,
\* so every entry it finds in the journal is still there, unchanged, afterwards.
C30_JournalIdsFresh ==
    [][CreatesJournalEntry =>
         /\ next_journal_id \notin DOMAIN disk.journal
         /\ \A id \in DOMAIN disk.journal :
              id \in DOMAIN disk'.journal /\ disk'.journal[id] = disk.journal[id]]_vars

\* the nonces below n that meet the target of the running configuration
PowMeets(n) ==
    HashMeetsTarget(PowHash(pm_config.block_data, n),
                    CalculateTarget(pm_config.difficulty))

\* C31: mine() tries the nonces 0, 1, 2, ... in order: while it runs the next
\* nonce equals the number of hashes computed and none of the nonces tried so
\* far met the target; a successful result carries the smallest nonce that
\* meets the target and attempts = nonce + 1; with max_attempts = N no more
\* than N hashes are computed.
C31_SmallestNonceFirst ==
    pm_pc \in PowRunning \cup {"done"} /\ pm_pc # "enter" =>
        /\ \A N \in pm_config.max_attempts : pm_attempts <= N
        /\ pm_pc \in PowRunning =>
              /\ pm_nonce = pm_attempts
              /\ \A n \in 0..(pm_nonce - 1) : ~PowMeets(n)
        /\ (pm_pc = "done" /\ pm_result.success) =>
              /\ PowMeets(pm_result.nonce)
              /\ \A n \in 0..(pm_result.nonce - 1) : ~PowMeets(n)
              /\ pm_result.attempts = pm_result.nonce + 1

\* mine() succeeded after nonces 0 and 1 had failed
C31_Witness ==
    /\ pm_pc = "done"
    /\ pm_result.success
    /\ pm_result.nonce >= 2

\* C32: of the batch commands only a successful commit changes the blocks:
\* begin, addput/adddel and abort never do; begin while a batch is active, and
\* addput, adddel or commit while none is, report an error and leave blocks and
\* batch_ops as they were; abort empties batch_ops and ends the batch.
C32_BatchErrorsChangeNothing ==
    [][/\ (KVBegin \/ (\E op \in KVOps : KVAdd(op)) \/ KVAbort) => kv_blocks' = kv_blocks
       /\ (KVBegin /\ kv_batch_active) =>
             /\ kv_res'.err = "batch already active"
             /\ kv_blocks' = kv_blocks /\ kv_batch_ops' = kv_batch_ops
       /\ ((\E op \in KVOps : KVAdd(op)) /\ ~kv_batch_active) =>
             /\ kv_res'.err = "no active batch"
             /\ kv_blocks' = kv_blocks /\ kv_batch_ops' = kv_batch_ops
       /\ ((\E t \in KVTimes : KVCommit(t)) /\ ~kv_batch_active) =>
             /\ kv_res'.err # "Ok"
             /\ kv_blocks' = kv_blocks /\ kv_batch_ops' = kv_batch_ops
       /\ ((\E t \in KVTimes : KVCommit(t)) /\ kv_res'.err # "Ok") =>
             kv_blocks' = kv_blocks /\ kv_batch_ops' = kv_batch_ops
       /\ KVAbort => kv_batch_ops' = <<>> /\ ~kv_batch_active']_vars

\* begin was refused while a batch with an accumulated op was active
C32_Witness ==
    /\ kv_res.op = "begin"
    /\ kv_res.err = "batch already active"
    /\ kv_batch_active
    /\ Len(kv_batch_ops) >= 1

\* C33: add_block on a block that passes every check but the proof of work,
\* and for which Block::mine finds a nonce, mines it and appends it.
C33_AddBlockMinesUnmined ==
    [][(/\ AddBlock(cand, StoreSteps)
        /\ ~MeetsDifficultyTarget(cand.header)
        /\ BlockMineResult(cand).err = "Ok"
        /\ ValidateBlock(blocks, utxo_set, BlockMine(cand), now) = "Ok")
       => /\ res'.err = "Ok"
          /\ Len(blocks') = Len(blocks) + 1]_vars

(***************************************************************************)
(* The shell loop of main, command by command, with the MutexGuard         *)
(* temporaries of each statement: a guard created in the scrutinee of a    *)
(* match or in an argument of println! lives to the end of that statement. *)
(***************************************************************************)
ShellIdle == rq["shell"].pc = "idle"

\* what lock() does when the calling thread already holds the mutex: std
\* leaves it open between never returning and panicking
RelockOutcomes == {"deadlocked", "panicked"}

ShellFrame ==
    /\ UNCHANGED <<kv_keypair, kv_file, kv_tampered>>
    /\ UNCHANGED <<ledgerVars, powVars, fnVars, poolVars>>

\* "verify": the scrutinee chain.lock().unwrap().verify_all(); its guard is
\* held while the arm runs
ShellVerify ==
    /\ ShellIdle
    /\ MutexAvailable(chain_lock, "shell")
    /\ chain_lock' = "shell"
    /\ rq' = [rq EXCEPT !["shell"] =
                [pc |-> IF KVVerifyAll(KVChain) = "Ok" THEN "verify_ok" ELSE "verify_err",
                 err |-> KVVerifyAll(KVChain)]]
    /\ UNCHANGED <<kv_blocks, kv_difficulty, kv_batch_active, kv_batch_ops, kv_res>>
    /\ ShellFrame

\* "verify", the Err arm: the message is printed and the match ends
ShellVerifyErr ==
    /\ rq["shell"].pc = "verify_err"
    /\ chain_lock' = "free"
    /\ kv_res' = [op |-> "verify", err |-> rq["shell"].err]
    /\ rq' = [rq EXCEPT !["shell"] = [pc |-> "idle"]]
    /\ UNCHANGED <<kv_blocks, kv_difficulty, kv_batch_active, kv_batch_ops>>
    /\ ShellFrame

\* "load <file>" up to the println! of the Ok arm: Chain::load, verify_all on
\* the loaded value, `*chain.lock().unwrap() = loaded;`
ShellLoad ==
    /\ ShellIdle
    /\ IF kv_file = NoHash
       THEN /\ kv_res' = [op |-> "load", err |-> "load error"]
            /\ UNCHANGED <<rq, kv_blocks, kv_difficulty, kv_batch_active, kv_batch_ops>>
       ELSE LET loaded == KVDeserialize(kv_file)
                err == KVVerifyAll(loaded)
            IN IF err # "Ok"
               THEN /\ kv_res' = [op |-> "load", err |-> err]
                    /\ UNCHANGED <<rq, kv_blocks, kv_difficulty, kv_batch_active,
                                   kv_batch_ops>>
               ELSE /\ MutexAvailable(chain_lock, "shell")
                    /\ KVSetChain(loaded)
                    /\ rq' = [rq EXCEPT !["shell"] = [pc |-> "load_print"]]
                    /\ UNCHANGED kv_res
    /\ UNCHANGED chain_lock
    /\ ShellFrame

\* "load", println!: the first argument, chain.lock().unwrap().blocks.len()
ShellLoadPrint ==
    /\ rq["shell"].pc = "load_print"
    /\ MutexAvailable(chain_lock, "shell")
    /\ chain_lock' = "shell"
    /\ rq' = [rq EXCEPT !["shell"] = [pc |-> "load_print2"]]
    /\ UNCHANGED <<kv_blocks, kv_difficulty, kv_batch_active, kv_batch_ops, kv_res>>
    /\ ShellFrame

\* the next chain.lock() of the statement under way: in the Ok arm of
\* "verify", and for the second argument of the println! of "load"
ShellRelock ==
    /\ rq["shell"].pc \in {"verify_ok", "load_print2"}
    /\ IF MutexAvailable(chain_lock, "shell")
       THEN /\ rq' = [rq EXCEPT !["shell"] = [pc |-> "idle"]]
            /\ kv_res' = [op |-> IF rq["shell"].pc = "verify_ok" THEN "verify" ELSE "load",
                          err |-> "Ok"]
            /\ UNCHANGED chain_lock
       ELSE /\ \E o \in RelockOutcomes : rq' = [rq EXCEPT !["shell"] = [pc |-> o]]
            /\ UNCHANGED <<chain_lock, kv_res>>
    /\ UNCHANGED <<kv_blocks, kv_difficulty, kv_batch_active, kv_batch_ops>>
    /\ ShellFrame

InitShell == InitKV

NextShell ==
    \/ ShellVerify
    \/ ShellVerifyErr
    \/ ShellLoad
    \/ ShellLoadPrint
    \/ ShellRelock
    \/ \E k \in KVKeyFiles : ShellIdle /\ KVLoadKey(k)
    \/ \E op \in KVOps, t \in KVTimes : ShellIdle /\ KVSingleOp(op, t)
    \/ \E n \in 1..KVMaxDifficulty : ShellIdle /\ KVDifficulty(n)
    \/ ShellIdle /\ KVSave
    \/ \E i \in 2..MaxKVBlocks, ops \in KVTamperedOps : KVTamperOps(i, ops)

SpecShell == InitShell /\ [][NextShell]_vars

\* C34: whenever the shell thread is about to call chain.lock() inside
\* "verify" or "load" it holds no guard on the chain mutex, so the call
\* returns and the command completes.
C34_ShellNeverRelocks ==
    /\ rq["shell"].pc \in {"verify_ok", "load_print2"} => chain_lock # "shell"
    /\ rq["shell"].pc \notin RelockOutcomes

\* C35: a chain that verify_all accepts is still accepted after a difficulty
\* command, whatever difficulty was chosen.
C35_DifficultyKeepsChainValid ==
    [][((\E n \in 0..(KVMaxDifficulty + 1) : KVDifficulty(n))
        /\ KVVerifyAll(KVChain) = "Ok")
       => KVVerifyAll([KVChain EXCEPT !.difficulty = kv_difficulty']) = "Ok"]_vars

(***************************************************************************)
(* The ledger with clients that may hand any transaction they can build to *)
(* add_transaction_to_pool, those made by Transaction::coinbase included.  *)
(***************************************************************************)
CoinbaseCandidates ==
    {CoinbaseTx(r, a, Len(blocks), now) : r \in Addresses, a \in TxAmounts \ {0}}

InitAdmit == Init

NextAdmit ==
    \/ \E tx \in TxCandidates \cup CoinbaseCandidates : AddTransactionToPool(tx)
    \/ \E sel \in PoolSelections : CreateBlock(MinerAddress, sel)
    \/ MineBlock
    \/ AddBlock(cand, StoreSteps)

SpecAdmit == InitAdmit /\ [][NextAdmit]_vars

\* C36: no transaction of the pool is a coinbase transaction, and a block
\* returned by create_block has exactly one coinbase transaction, its first.
C36_NoCoinbaseInPool ==
    /\ \A tx \in PoolTxs : ~TxIsCoinbase(tx)
    /\ cand # NoHash =>
          \A i \in DOMAIN cand.transactions : TxIsCoinbase(cand.transactions[i]) <=> i = 1

\* C37: a block that validate_block accepts against the current chain and
\* UTXO set is applied by apply_block_to_utxo_set without a missing-UTXO
\* error; a block that names one unspent output in two inputs is therefore
\* not accepted by validate_block.
C37_ValidatedBlocksApply ==
    (cand # NoHash /\ ValidateBlock(blocks, utxo_set, cand, now) = "Ok")
        => ApplyBlockToUtxoSet(utxo_set, cand).ok

(***************************************************************************)
(* The ledger with miners that write their own coinbase: blocks built on   *)
(* the tip with Block::new and mined, whose coinbase pays the reward or    *)
(* one unit more.                                                          *)
(***************************************************************************)
MintAmounts == {CalculateBlockReward(Len(blocks)), CalculateBlockReward(Len(blocks)) + 1}

MintBlocks ==
    {BlockMine(NewBlock(Len(blocks), BlockHash(blocks[Len(blocks)]),
                        <<CoinbaseTx(MinerAddress, a, Len(blocks), now)>> \o sel,
                        CalculateNextDifficulty(blocks), now)) :
        a \in MintAmounts, sel \in PoolSelections}

InitMint == Init

NextMint ==
    \/ Tick
    \/ \E tx \in TxCandidates : AddTransactionToPool(tx)
    \/ \E b \in MintBlocks : AddBlock(b, StoreSteps)

SpecMint == InitMint /\ [][NextMint]_vars

\* C38: the coinbase of a block that add_block appends pays out at most
\* calculate_block_reward(height) plus the fees of the block's other
\* transactions.
C38_CoinbaseWithinReward ==
    [][(res'.op = "add_block" /\ res'.err = "Ok" /\ Len(blocks') = Len(blocks) + 1) =>
          LET b == blocks'[Len(blocks')]
          IN SumAmounts(b.transactions[1].outputs) <=
                CalculateBlockReward(b.index)
                  + IncludedFees(Tail(b.transactions), UtxoMap(utxo_set))]_vars

(***************************************************************************)
(* Who signs a spend.  The ledger's checks read of an input's signature    *)
(* and public_key only whether they are there; what they hold travels      *)
(* beside the transaction: for each input the holder of the key that made  *)
(* the signature and the address its public_key hashes to.                 *)
(***************************************************************************)
KeyHolders == {"alice", "mallory"}

\* crypto::verify_signature: `Ok(true)` whatever it is given
VerifySignature(message, signed_by, key_of) == TRUE

\* Transaction::verify_signatures
VerifySignatures(tx, content) ==
    \A i \in DOMAIN tx.inputs :
        \/ InputIsCoinbase(tx.inputs[i])
        \/ /\ tx.inputs[i].signature
           /\ tx.inputs[i].public_key
           /\ VerifySignature(TxHash(tx), content[i].signed_by, content[i].key_of)

SpendInputs ==
    {[input |-> NewInput([h |-> "prev", n |-> 1], 0, present),
      signed_by |-> sb, key_of |-> ko] :
        present \in BOOLEAN, sb \in KeyHolders, ko \in KeyHolders}
SpendInputLists == UNION {[1..n -> SpendInputs] : n \in 1..MaxTxInputs}
SpendUtxoMaps ==
    {[k \in {UtxoKey([h |-> "prev", n |-> 1], 0)} |-> NewOutput(2, owner)] :
        owner \in KeyHolders}

InitSpend ==
    /\ LedgerInit /\ ~storage /\ KVInit /\ PowInit /\ PoolInit /\ ServeInit
    /\ fn_call \in {[f |-> "spend_args",
                      tx |-> NewTx(1, [i \in DOMAIN l |-> l[i].input],
                                   <<NewOutput(1, "bob")>>, 1, 0),
                      content |-> [i \in DOMAIN l |->
                                     [signed_by |-> l[i].signed_by, key_of |-> l[i].key_of]],
                      utxo_set |-> m] :
                       l \in SpendInputLists, m \in SpendUtxoMaps}

\* tx.validate(&utxo_set), as add_transaction_to_pool and Block::validate
\* call it, and tx.verify_signatures(), which neither of them calls
SpendCall ==
    /\ fn_call.f = "spend_args"
    /\ fn_call' = [f |-> "spend", tx |-> fn_call.tx, content |-> fn_call.content,
                   utxo_set |-> fn_call.utxo_set,
                   validate |-> TxValidate(fn_call.tx, fn_call.utxo_set),
                   verify_signatures |-> VerifySignatures(fn_call.tx, fn_call.content)]
    /\ UNCHANGED <<ledgerVars, kvVars, powVars, poolVars, serveVars>>

SpecSpend == InitSpend /\ [][SpendCall]_vars

\* C39: a spend that validate accepts carries, for each input, a signature
\* made with the key the input names, and that key is the one the spent
\* output was paid to.
C39_OnlyOwnerSpends ==
    (fn_call.f = "spend" /\ fn_call.validate = "Ok") =>
        \A i \in DOMAIN fn_call.tx.inputs :
            LET key == UtxoKey(fn_call.tx.inputs[i].previous_tx_hash,
                               fn_call.tx.inputs[i].output_index)
            IN /\ fn_call.content[i].signed_by = fn_call.content[i].key_of
               /\ fn_call.content[i].key_of = fn_call.utxo_set[key].recipient

(***************************************************************************)
(* The signed KV chain and a saved file from which somebody removes the    *)
(* signature or the signer key of a block.                                 *)
(***************************************************************************)
\* the file is edited: "signature" or "signer_pubkey" of the non-genesis
\* block at position i becomes null, every other field stays as stored
KVStripSignature(i, field) ==
    /\ kv_file # NoHash
    /\ ~kv_tampered
    /\ i \in 2..Len(kv_file.blocks)
    /\ kv_file' = IF field = "signature"
                  THEN [kv_file EXCEPT !.blocks[i].signature = NoHash]
                  ELSE [kv_file EXCEPT !.blocks[i].signer_pubkey = NoHash]
    /\ kv_tampered' = TRUE
    /\ UNCHANGED <<kv_blocks, kv_difficulty, kv_batch_active, kv_batch_ops,
                   kv_keypair, kv_res>>
    /\ UNCHANGED <<ledgerVars, powVars, fnVars, poolVars, serveVars>>

NextKVSig ==
    \/ \E k \in KVKeyFiles : KVLoadKey(k)
    \/ \E op \in KVOps, t \in KVTimes : KVSingleOp(op, t)
    \/ KVVerify
    \/ KVSave
    \/ \E i \in 2..MaxKVBlocks, field \in {"signature", "signer_pubkey"} :
          KVStripSignature(i, field)
    \/ KVLoad

SpecKVSig == InitKV /\ [][NextKVSig]_vars

\* C40: a chain that verify_all accepts has, in every block at index >= 1, a
\* signer key and a signature of the block's hash made with that key.
C40_VerifiedBlocksAreSigned ==
    KVVerifyAll(KVChain) = "Ok" =>
        \A i \in 2..Len(kv_blocks) :
            /\ kv_blocks[i].signature # NoHash
            /\ kv_blocks[i].signer_pubkey # NoHash
            /\ kv_blocks[i].signature.msg = kv_blocks[i].hash
            /\ kv_blocks[i].signature.signer = kv_blocks[i].signer_pubkey.pub

====
